---- MODULE Spec2Model ----
(***************************************************************************)
(* A model of the uAgents addressing, routing and message-exchange layer:  *)
(* the resolver chain (Resolver.ts), the send pipeline (Communication.ts), *)
(* envelope signing (Envelope.ts, crypto.ts) and the registration policies *)
(* (Registration.ts, Network.ts).                                          *)
(*                                                                         *)
(* Conventions.  A JavaScript string that the code splits or measures is a *)
(* sequence of tokens (see Tokens).  A value that may be undefined is the  *)
(* tuple Absent.  An async function is a sequence of steps, one per await  *)
(* of an external call; the outcome of each external call is drawn with \E *)
(* from the outcomes that call can have.                                   *)
(***************************************************************************)
EXTENDS Integers, Sequences, FiniteSets, TLC

\* ------------------------------------------------------------------ bounds
MaxEndpointList == 2   \* longest endpoint list a registry record or rule holds
MaxKey == 2            \* distinct sampling keys a random draw can produce
Now == 1               \* the clock reading (seconds) when an envelope is built
MaxItems == 3          \* longest list weightedRandomSample is called with
MaxPieces == 5         \* words and separators an identifier given to parseIdentifier holds
MaxRetries == 3        \* largest retries argument a direct almanacApiPost call passes
MaxTimeout == 2        \* largest timeout (seconds) a direct waitForTxToComplete call passes
MaxPoll == 2           \* largest poll interval (seconds) such a call passes
MaxCallers == 2        \* getLedger calls that can be in flight at once
MaxChanges == 2        \* register / unregister requests during one dispatchMsg
MaxBatch == 2          \* agents added to one batch registration policy
MaxHistory == 2        \* entries an EnvelopeHistory holds when addEntry is called
MaxTicks == 3          \* times the clock moves on

\* ------------------------------------------------------- program constants
AGENT_ADDRESS_LENGTH == 65
DEFAULT_MAX_ENDPOINTS == 10
REGISTRATION_UPDATE_INTERVAL_SECONDS == 3600
AVERAGE_BLOCK_INTERVAL == 6
DEFAULT_ENVELOPE_TIMEOUT_SECONDS == 30
ALMANAC_API_MAX_RETRIES == 10
DEFAULT_QUERY_INTERVAL_SECS == 1
DEFAULT_QUERY_TIMEOUT_SECS == 30
MAX_RETRY_ATTEMPTS == 30
RetentionSeconds == 86400
\* Config.ts REGISTRATION_FEE, "500000000000000000" atestfet, in units of 10^17
REGISTRATION_FEE == 5

AGENT_PREFIX == <<"agent">>
USER_PREFIX == "user"
TESTNET_PREFIX == <<"test-agent">>
MAINNET_PREFIX == <<"agent">>

\* ------------------------------------------------------------------ values
Absent == <<"absent">>                 \* undefined
Null == <<"null">>                     \* null
EmptyString == <<>>                    \* ""

\* The smaller of two numbers (Math.min).
Min(a, b) == IF a <= b THEN a ELSE b

\* ----------------------------------------------------------- identifiers
(* An identifier is a sequence of tokens.  ":" and "/" are single          *)
(* characters; every other token is a run of characters holding neither.   *)
Separators == {":", "/"}
Words == {"agent", "test-agent", "http", "bob", "agent1qA", "agent1qB", "user1U",
          "username"}
Tokens == Separators \cup Words

\* Number of characters of a token.
TokLen(t) ==
  CASE t \in Separators -> 1
    [] t = "agent" -> 5
    [] t = "test-agent" -> 10
    [] t = "http" -> 4
    [] t = "bob" -> 3
    [] t = "agent1qA" -> AGENT_ADDRESS_LENGTH
    [] t = "agent1qB" -> AGENT_ADDRESS_LENGTH
    [] t = "user1U" -> 63
    [] t = "username" -> 8

\* Whether a token starts with "agent" / with "user".
TokStartsAgent(t) == t \in {"agent", "agent1qA", "agent1qB"}
TokStartsUser(t) == t \in {"user1U", "username"}

RECURSIVE StrLen(_)
StrLen(s) == IF s = <<>> THEN 0 ELSE TokLen(Head(s)) + StrLen(Tail(s))

\* crypto.ts isUserAddress: address.substring(0, 4) === "user"
isUserAddress(address) == address # <<>> /\ TokStartsUser(address[1])

\* Resolver.ts isValidAddress
isValidAddress(address) ==
  \/ isUserAddress(address)
  \/ /\ StrLen(address) = AGENT_ADDRESS_LENGTH
     /\ address # <<>>
     /\ TokStartsAgent(address[1])

\* Resolver.ts isValidPrefix
isValidPrefix(prefix) == prefix \in {TESTNET_PREFIX, MAINNET_PREFIX, <<>>}

\* Whether the separator sep (a token sequence) occurs in s at position i.
OccursAt(s, sep, i) ==
  /\ i >= 1
  /\ i + Len(sep) - 1 <= Len(s)
  /\ \A j \in 1..Len(sep) : s[i + j - 1] = sep[j]

\* String.prototype.includes
Includes(s, sep) == \E i \in 1..Len(s) : OccursAt(s, sep, i)

\* Position of the first occurrence of sep in s at or after position from, 0 if none.
IndexOf(s, sep, from) ==
  IF \E i \in from..Len(s) : OccursAt(s, sep, i)
  THEN CHOOSE i \in from..Len(s) :
         OccursAt(s, sep, i) /\ \A j \in from..(i - 1) : ~OccursAt(s, sep, j)
  ELSE 0

\* String.prototype.split(sep): every piece between the occurrences of sep.
RECURSIVE SplitAll(_, _)
SplitAll(s, sep) ==
  LET i == IndexOf(s, sep, 1)
  IN IF i = 0 THEN <<s>>
     ELSE <<SubSeq(s, 1, i - 1)>> \o SplitAll(SubSeq(s, i + Len(sep), Len(s)), sep)

\* String.prototype.split(sep, 2): the first two pieces; what follows a
\* second occurrence of sep is dropped.
Split2(s, sep) ==
  LET all == SplitAll(s, sep)
  IN SubSeq(all, 1, Min(2, Len(all)))

\* Resolver.ts parseIdentifier: [prefix, name, address]
parseIdentifier(identifier) ==
  LET hasScheme == Includes(identifier, <<":", "/", "/">>)
      p1 == Split2(identifier, <<":", "/", "/">>)
      prefix == IF hasScheme THEN p1[1] ELSE <<>>
      rest1 == IF hasScheme THEN p1[2] ELSE identifier
      hasSlash == Includes(rest1, <<"/">>)
      p2 == Split2(rest1, <<"/">>)
      name0 == IF hasSlash THEN p2[1] ELSE <<>>
      rest2 == IF hasSlash THEN p2[2] ELSE rest1
  IN IF isValidAddress(rest2)
     THEN <<prefix, name0, rest2>>
     ELSE <<prefix, rest2, <<>>>>

\* ------------------------------------------------------ weighted sampling
(* Resolver.ts weightedRandomSample with weights given.  values[i] is the  *)
(* key Math.pow(Math.random(), 1 / weights[i]) of item i; the draw decides *)
(* it, so it is an input.  The indices are sorted by descending key (the   *)
(* sort is stable: equal keys keep index order) and the first k are taken. *)
RECURSIVE SortDesc(_, _)
SortDesc(values, left) ==
  IF left = {} THEN <<>>
  ELSE LET best == CHOOSE i \in left :
                     \A j \in left : \/ values[i] > values[j]
                                     \/ (values[i] = values[j] /\ i <= j)
       IN <<best>> \o SortDesc(values, left \ {best})

\* A sample that repeats the best item.
weightedRandomSample_repeating(items, values, k) ==
  LET order == SortDesc(values, 1..Len(items))
      top == SubSeq(order, 1, Min(k, Len(order)))
  IN [i \in 1..Len(top) |-> items[top[1]]]

weightedRandomSample(items, values, k) ==
  LET order == SortDesc(values, 1..Len(items))
      top == SubSeq(order, 1, Min(k, Len(order)))
  IN [i \in 1..Len(top) |-> items[top[i]]]

\* The keys a draw can produce for n items.
Draws(n) == [1..n -> 1..MaxKey]

\* Math.random is called only where the sample is taken: no draw otherwise.
DrawsIf(sampled, n) == IF sampled THEN Draws(n) ELSE {<<>>}

\* ------------------------------------------------------- resolver results
URLs == {"u1", "u2"}
EndpointLists == UNION {[1..n -> URLs] : n \in 0..MaxEndpointList}

\* [string | null, string[]]
Pair(address, endpoints) == [threw |-> FALSE, address |-> address, endpoints |-> endpoints]
Miss == Pair(Null, <<>>)
\* A rejected promise / thrown error; what names the error.
Throw(what) == [threw |-> TRUE, address |-> <<what>>, endpoints |-> <<>>]
NoRet == [threw |-> FALSE, address |-> <<"pending">>, endpoints |-> <<>>]

\* maxEndpoints || DEFAULT_MAX_ENDPOINTS
EffectiveMax(maxEndpoints) == IF maxEndpoints = 0 THEN DEFAULT_MAX_ENDPOINTS ELSE maxEndpoints

\* ------------------------------------------------------------ Almanac API
(* What GET /agents/{address} can do: fetch throws, a non-200 status, a    *)
(* body that is not JSON, or a JSON agent {expiry, endpoints}.  expiry is  *)
(* missing, unparseable by Date (NaN, which compares false), or a date     *)
(* before, equal to or after the clock new Date() reads.                   *)
ExpiryKinds == {"missing", "invalid", "past", "now", "future"}
ApiFailures ==
  {[status |-> s, json |-> "bad", expiry |-> "missing", endpoints |-> <<>>] :
     s \in {"throw", "404", "500"}}
ApiBodies ==
  {[status |-> "200", json |-> "bad", expiry |-> "missing", endpoints |-> <<>>]}
  \cup
  {[status |-> "200", json |-> "ok", expiry |-> k, endpoints |-> e] :
      k \in ExpiryKinds, e \in EndpointLists}
ApiResponses == ApiFailures \cup ApiBodies

\* What is kept of an answer: its status, whether it parsed, its expiry and
\* how many endpoints it lists.
Seen(resp) == [status |-> resp.status, json |-> resp.json, expiry |-> resp.expiry,
               count |-> Len(resp.endpoints)]
NoApiResponse == [status |-> "none", json |-> "bad", expiry |-> "missing", count |-> 0]

\* expiry > currentTime on two Dates
Later(expiry) == expiry = "future"

\* An _apiResolve that takes a record whatever its expiry.
_apiResolve_accepts_anyExpiry(resp) ==
  resp.status = "200" /\ resp.json = "ok" /\ Len(resp.endpoints) > 0

\* Resolver.ts AlmanacApiResolver._apiResolve, lines 218-240: whether the
\* answer gets as far as the sample
_apiResolve_accepts(resp) ==
  IF resp.status = "throw" THEN FALSE
  ELSE IF resp.status # "200" THEN FALSE
  ELSE IF resp.json = "bad" THEN FALSE
  ELSE IF resp.expiry = "missing" THEN FALSE
  ELSE Len(resp.endpoints) > 0 /\ Later(resp.expiry)

\* Resolver.ts AlmanacApiResolver._apiResolve, given the API's answer and the draw
_apiResolve(destination, resp, values, maxEndpoints) ==
  LET address == parseIdentifier(destination)[3]
  IN IF _apiResolve_accepts(resp)
     THEN Pair(address,
               weightedRandomSample(resp.endpoints, values,
                                    Min(maxEndpoints, Len(resp.endpoints))))
     ELSE Miss

\* ------------------------------------------------------- Almanac contract
Networks == {"testnet", "mainnet"}
NetOf(test) == IF test THEN "testnet" ELSE "mainnet"

(* What the contract side can do for one queryRecord: CosmWasmClient       *)
(* .connect may fail (only when no client is memoized yet), checkVersion   *)
(* may find another version or fail to query it (both give null), and the  *)
(* query_record query may fail, answer null, or answer a record.           *)
ContractOutcomes ==
  {[connect |-> "fail", version |-> "match", query |-> "fail", endpoints |-> <<>>]}
  \cup {[connect |-> "ok", version |-> v, query |-> "fail", endpoints |-> <<>>] :
          v \in {"match", "mismatch", "queryfail"}}
  \cup {[connect |-> "ok", version |-> "match", query |-> q, endpoints |-> <<>>] :
          q \in {"nil", "norecord", "noservice"}}
  \cup {[connect |-> "ok", version |-> "match", query |-> "record", endpoints |-> e] :
          e \in EndpointLists}

\* Network.ts checkVersion: false on another version and on a failed query
checkVersion(o) == o.version = "match"

\* Network.ts getAlmanacContract: the contract, null, or a rejection
getAlmanacContract(o) ==
  IF o.connect = "fail" THEN "throw"
  ELSE IF checkVersion(o) THEN "contract" ELSE "null"

\* Resolver.ts AlmanacContractResolver.resolve, line 191: whether it samples
AlmanacContractResolver_samples(o) ==
  /\ getAlmanacContract(o) = "contract"
  /\ o.query = "record"
  /\ Len(o.endpoints) > 0

\* Resolver.ts queryRecord followed by AlmanacContractResolver.resolve
AlmanacContractResolver_resolve(destination, o, values, maxEndpoints) ==
  LET address == parseIdentifier(destination)[3]
      contract == getAlmanacContract(o)
  IN IF contract = "throw" THEN Throw("connect failed")
     ELSE IF contract = "null" THEN Throw("Failed to get Almanac contract")
     ELSE IF o.query = "fail" THEN Throw("Query failed")
     ELSE IF AlmanacContractResolver_samples(o)
          THEN Pair(address,
                    weightedRandomSample(o.endpoints, values,
                                         Min(maxEndpoints, Len(o.endpoints))))
          ELSE Miss

\* The network AlmanacContractResolver and NameServiceResolver query.
IsTestnet(destination) == parseIdentifier(destination)[1] # MAINNET_PREFIX

\* ----------------------------------------------------------- name service
AgentAddresses == {<<"agent1qA">>, <<"agent1qB">>}
AddressLists == UNION {[1..n -> AgentAddresses] : n \in 0..MaxEndpointList}

(* What the name-service side can do for one getAgentAddress: connect may  *)
(* fail, the domain_record query may fail or answer null, the answer may   *)
(* have record null, no record field, or a record with agent records.      *)
NameOutcomes ==
  {[connect |-> "fail", query |-> "fail", addresses |-> <<>>]}
  \cup {[connect |-> "ok", query |-> q, addresses |-> <<>>] :
          q \in {"fail", "nil", "recordnull", "norecordfield"}}
  \cup {[connect |-> "ok", query |-> "record", addresses |-> a] : a \in AddressLists}

\* Resolver.ts getAgentAddress: an address, null, or a rejection
getAgentAddress(o, values) ==
  IF o.connect = "fail" THEN Throw("connect failed")
  ELSE IF o.query = "fail" THEN Throw("Query failed")
  ELSE IF o.query = "nil" THEN Throw("Failed to get NameService contract")
  ELSE IF o.query = "norecordfield" THEN Throw("TypeError")
  ELSE IF o.query = "record" /\ Len(o.addresses) > 0
       THEN LET selected == weightedRandomSample(o.addresses, values, 1)
            IN IF Len(selected) > 0 THEN Pair(selected[1], <<>>) ELSE Miss
       ELSE Miss

\* ---------------------------------------------------------- rules resolver
(* The rule configured for the destination: none, one endpoint given as a  *)
(* bare string, or a list.                                                 *)
Rules ==
  {[kind |-> "none", list |-> <<>>]}
  \cup {[kind |-> "string", list |-> <<u>>] : u \in URLs}
  \cup {[kind |-> "list", list |-> e] : e \in EndpointLists}

(* this._rules[destination] on the rules object: its own property, else    *)
(* the property the object inherits from Object.prototype under that name  *)
(* (for "constructor" the function Object, whose length is 1 and which has *)
(* no slice method), else undefined.                                       *)
InheritedKeys == {<<"constructor">>}
InheritedRule == [kind |-> "inherited", list |-> <<"[Function: Object]">>, length |-> 1]
RuleLookup(rules, destination) ==
  IF destination \in DOMAIN rules THEN rules[destination]
  ELSE IF destination \in InheritedKeys THEN InheritedRule
  ELSE [kind |-> "none", list |-> <<>>]

\* Resolver.ts RulesBasedResolver.resolve
RulesBasedResolver_resolve(destination, rule, maxEndpoints) ==
  LET endpoints == IF rule.kind = "none" THEN <<>> ELSE rule.list
  IN IF rule.kind = "inherited"
     THEN (IF rule.length > maxEndpoints THEN Throw("TypeError") ELSE Pair(destination, rule.list))
     ELSE Pair(destination,
               IF Len(endpoints) > maxEndpoints
               THEN SubSeq(endpoints, 1, maxEndpoints)
               ELSE endpoints)

\* ------------------------------------------------------ identities, crypto
Keys == {"k1", "k2"}

\* crypto.ts Identity constructor: address = bech32("agent", compressed public key)
AddressOf(key) == IF key = "k1" THEN <<"agent1qA">> ELSE <<"agent1qB">>

(* A string that holds bytes in some encoding: enc names the encoding      *)
(* ("bech32" with its human-readable part hrp, "b64"), key and digest name *)
(* the bytes: the canonical ECDSA signature made with key over digest;     *)
(* bytes is how many bytes the string encodes.                             *)
NoSignature == [enc |-> "absent", hrp |-> "", key |-> "", digest |-> <<>>, bytes |-> 0]

\* getCanonicalSignature: r and s, 32 bytes each
SignatureBytes == 64

\* The bech32 package's encode and decode: LIMIT = LIMIT || 90
Bech32Limit == 90

PrefixLen(hrp) ==
  CASE hrp = "sig" -> 3
    [] hrp = "agent" -> 5
    [] hrp = "user" -> 4
    [] OTHER -> 0

\* crypto.ts convertBits(value, 8, 5, true): how many 5-bit words, padded
convertBits(bytes) == (8 * bytes + 4) \div 5

\* prefix, the separator "1", the words, six checksum characters
Bech32Chars(hrp, bytes) == PrefixLen(hrp) + 1 + convertBits(bytes) + 6

\* The bech32 string of sig under prefix, however long
Bech32String(prefix, sig) ==
  [enc |-> "bech32", hrp |-> prefix, key |-> sig.key, digest |-> sig.digest,
   bytes |-> sig.bytes]

\* What a caller holds after the call threw
ThrownString ==
  [enc |-> "thrown", hrp |-> "", key |-> "", digest |-> <<>>, bytes |-> 0]

\* crypto.ts encodeBech32: bech32.encode(prefix, words) without a limit
\* argument throws 'Exceeds length limit' above 90 characters
encodeBech32(prefix, sig) ==
  IF Bech32Chars(prefix, sig.bytes) > Bech32Limit
  THEN ThrownString
  ELSE Bech32String(prefix, sig)

toBase64(sig) ==
  [enc |-> "b64", hrp |-> "", key |-> sig.key, digest |-> sig.digest,
   bytes |-> sig.bytes]

\* keyPair.sign followed by getCanonicalSignature: the 64 signature bytes
EcSign(key, digest) == [key |-> key, digest |-> digest, bytes |-> SignatureBytes]

\* crypto.ts Identity.sign / signDigest
signDigest(key, digest) == encodeBech32("sig", EcSign(key, digest))

\* crypto.ts Identity.signB64
signB64(key, digest) == toBase64(EcSign(key, digest))

\* bech32.decode of an address: the prefix and the key whose public key it
\* holds ("invalid": 33 bytes that are no point of the curve); ok is FALSE
\* where decoding throws.
DecodeAddress(address) ==
  IF address = <<"agent1qA">> THEN [ok |-> TRUE, hrp |-> "agent", key |-> "k1"]
  ELSE IF address = <<"agent1qB">> THEN [ok |-> TRUE, hrp |-> "agent", key |-> "k2"]
  ELSE IF address = <<"agent1qX">> THEN [ok |-> TRUE, hrp |-> "agent", key |-> "invalid"]
  ELSE IF address = <<"user1U">> THEN [ok |-> TRUE, hrp |-> "user", key |-> ""]
  ELSE [ok |-> FALSE, hrp |-> "", key |-> ""]

\* crypto.ts decodeBech32 of a signature string: bech32.decode(value) throws
\* on what is no bech32 string and on one longer than 90 characters
SignatureDecodes(signature) ==
  /\ signature.enc = "bech32"
  /\ Bech32Chars(signature.hrp, signature.bytes) <= Bech32Limit

\* crypto.ts Identity.verifyDigest, the statements inside try
verifyDigest_try(address, digest, signature) ==
  LET pk == DecodeAddress(address)
  IN IF ~pk.ok THEN "threw"
     ELSE IF ~SignatureDecodes(signature) THEN "threw"
     ELSE IF pk.hrp # "agent" THEN "threw"
     ELSE IF signature.hrp # "sig" THEN "threw"
     ELSE IF pk.key = "invalid" THEN "threw"
     ELSE IF /\ signature.bytes = SignatureBytes
             /\ signature.key = pk.key
             /\ signature.digest = digest
          THEN "true"
          ELSE "false"

catch_rethrowing(outcome) == outcome

\* crypto.ts Identity.verifyDigest: catch (error) { return false; }
catch(outcome) == IF outcome = "threw" THEN "false" ELSE outcome

\* crypto.ts Identity.verifyDigest
verifyDigest(address, digest, signature) ==
  catch(verifyDigest_try(address, digest, signature)) = "true"

\* ---------------------------------------------------------------- envelope
Bodies == {<<"hi">>}
Sessions == {<<"s1">>}
SchemaDigests == {<<"model:m">>}

\* Buffer.from(value).toString('base64'): the empty string encodes to itself
Base64(value) == IF value = <<>> THEN <<>> ELSE <<"b64[">> \o value \o <<"]">>

\* 8 bytes, big endian
U64(n) == <<"u64", ToString(n)>>

\* if (x): undefined and "" are falsy
TruthyStr(x) == x # Absent /\ x # <<>>

\* Envelope.ts Envelope._digest: the bytes fed to the hasher, in order
_digest(e) ==
  e.sender \o e.target \o e.session \o e.schemaDigest
  \o (IF TruthyStr(e.payload) THEN e.payload ELSE <<>>)
  \o (IF e.hasExpires /\ e.expires # 0 THEN U64(e.expires) ELSE <<>>)
  \o (IF e.hasNonce THEN U64(e.nonce) ELSE <<>>)

\* new Envelope({version: 1, sender, target, session, schemaDigest, expires})
NewEnvelope(sender, target, session, schemaDigest, hasExpires, expires) ==
  [sender |-> sender, target |-> target, session |-> session,
   schemaDigest |-> schemaDigest, payload |-> Absent,
   hasExpires |-> hasExpires, expires |-> expires,
   hasNonce |-> FALSE, nonce |-> 0, signature |-> NoSignature]

NoEnvelope == NewEnvelope(<<>>, <<>>, <<>>, <<>>, FALSE, 0)

(* A string is a sequence of UTF-16 code units, each a token: HighSurrogate *)
(* and LowSurrogate are the two halves of a pair, any other token a        *)
(* character of the basic plane.                                           *)
HighSurrogate == "\\uD83D"
LowSurrogate == "\\uDE00"
ReplacementChar == "\\uFFFD"

\* Buffer.from(value): the UTF-8 bytes, one token for each character; a
\* surrogate without its other half is encoded as U+FFFD
RECURSIVE Utf8(_)
Utf8(value) ==
  IF value = <<>> THEN <<>>
  ELSE IF Len(value) >= 2 /\ value[1] = HighSurrogate /\ value[2] = LowSurrogate
       THEN <<"f0 9f 98 80">> \o Utf8(Tail(Tail(value)))
  ELSE IF value[1] \in {HighSurrogate, LowSurrogate, ReplacementChar}
       THEN <<"ef bf bd">> \o Utf8(Tail(value))
  ELSE <<value[1]>> \o Utf8(Tail(value))

\* buffer.toString(): the characters of UTF-8 bytes
RECURSIVE Utf8ToString(_)
Utf8ToString(bytes) ==
  IF bytes = <<>> THEN <<>>
  ELSE (IF bytes[1] = "f0 9f 98 80" THEN <<HighSurrogate, LowSurrogate>>
        ELSE IF bytes[1] = "ef bf bd" THEN <<ReplacementChar>>
        ELSE <<bytes[1]>>)
       \o Utf8ToString(Tail(bytes))

\* Buffer.from(text, 'base64'): the bytes of a base64 text; text that was
\* never base64 gives other bytes
FromBase64(text) ==
  IF text = <<>> THEN <<>>
  ELSE IF Len(text) >= 2 /\ text[1] = "b64[" /\ text[Len(text)] = "]"
       THEN SubSeq(text, 2, Len(text) - 1)
  ELSE <<"?">>

encodePayload_raw(e, value) == [e EXCEPT !.payload = value]

\* Envelope.ts Envelope.encodePayload
encodePayload(e, value) == [e EXCEPT !.payload = Base64(Utf8(value))]

\* Envelope.ts Envelope.decodePayload
decodePayload(e) ==
  IF ~TruthyStr(e.payload) THEN <<>>
  ELSE Utf8ToString(FromBase64(e.payload))

\* Envelope.ts Envelope.sign: the signature string it stores
Envelope_signature(e, key) == signB64(key, _digest(e))

\* Envelope.ts Envelope.sign
Envelope_sign(e, key) == [e EXCEPT !.signature = Envelope_signature(e, key)]

\* if (env.signature)
HasSignature(e) == e.signature.enc # "absent"

\* Envelope.ts Envelope.verify: "throw" when the signature is missing
Envelope_verify(e) ==
  IF ~HasSignature(e) THEN "throw"
  ELSE IF verifyDigest(e.sender, _digest(e), e.signature) THEN "true" ELSE "false"

\* ------------------------------------------------------------------- state
VARIABLES
  pc,          \* where the one call in progress stands
  call,        \* the arguments of resolve() or sendMessageRaw()
  stack,       \* resolver calls in progress, innermost last
  ret,         \* what the resolver call that ended last returned
  calls,       \* every resolver call made: <<resolver, destination>> (SpecResolve)
  rets,        \* per resolver class, what its resolve() returned (SpecResolve)
  apiSeen,     \* what the API answered to _apiResolve (SpecResolve)
  clients,     \* networks with a memoized ledger client
  sync,        \* the sync argument of sendExchangeEnvelope
  env,         \* the outgoing envelope
  endpoints,   \* the endpoints handed to sendExchangeEnvelope
  tried,       \* the endpoint attempts made, in order: [index, ok]
  accepted,    \* the reply envelope taken as the synchronous answer
  sinks,       \* Dispatcher._sinks: address -> sinks in insertion order
  handled,     \* the sinks whose handleMessage was invoked: <<address, sink>>
  result,      \* what the call returned or threw
  regPc,       \* where the one register() call in progress stands
  policy,      \* the registration policy and the arguments of register()
  chain,       \* the Almanac contract's record of the agent
  wallet,      \* the wallet's balance, in units of 10^17 atestfet
  trace,       \* the external calls register() made, in order
  outcome      \* how the API part, the ledger part and register() ended

sendVars == <<pc, call, stack, ret, calls, rets, apiSeen, clients, sync, env,
              endpoints, tried, accepted, sinks, handled, result>>
regVars == <<regPc, policy, chain, wallet, trace, outcome>>

VARIABLES
  post,        \* the almanacApiPost call in progress
  tx,          \* the AlmanacContract.register / registerBatch call in progress
  faucet,      \* the FaucetApi.getWealth call in progress
  conn,        \* the memoized ledger clients and the getLedger calls in progress
  disp,        \* the Dispatcher registry and the dispatchMsg call in progress
  batch,       \* the BatchLedgerRegistrationPolicy and its register() call
  hist,        \* the EnvelopeHistory and the clock
  fn           \* the call of a function under study: its inputs and its result

auxVars == <<post, tx, faucet, conn, disp, batch, hist, fn>>
vars == <<sendVars, regVars, auxVars>>

Resolvers == {"Global", "AlmanacApi", "AlmanacContract", "NameService", "RulesBased"}

\* The destinations a caller passes.
Destinations ==
  { <<"agent1qA">>,
    <<"agent", ":", "/", "/", "agent1qA">>,
    <<"test-agent", ":", "/", "/", "bob">>,
    <<"http", ":", "/", "/", "agent1qA">>,
    <<"bob">> }

\* The sender argument: an Identity, a user address, undefined, another string.
Senders ==
  {[kind |-> "identity", key |-> k, address |-> AddressOf(k)] : k \in Keys}
  \cup {[kind |-> "string", key |-> "", address |-> <<"user1U">>],
        [kind |-> "string", key |-> "", address |-> <<"bob">>],
        [kind |-> "undefined", key |-> "", address |-> <<>>]}

NoCall == [destination |-> <<>>, resolver |-> "none", maxEndpoints |-> 0,
           rule |-> [kind |-> "none", list |-> <<>>],
           sender |-> [kind |-> "undefined", key |-> "", address |-> <<>>]]

\* MsgStatus, an Envelope, a decoded JSON string, a validated model, or a thrown error
MsgStatus(status, detail, endpoint) ==
  [kind |-> "status", status |-> status, detail |-> detail, endpoint |-> endpoint]
Returned(kind) == [kind |-> kind, status |-> "", detail |-> "", endpoint |-> ""]
Thrown(why) == [kind |-> "throw", status |-> "", detail |-> why, endpoint |-> ""]
NoResult == Returned("none")

NoRets == [r \in Resolvers |-> NoRet]

\* ------------------------------------------------------ registration values
(* An array handed to JSON.stringify: what it holds, and for an array of    *)
(* objects the order of each object's keys, which the text depends on.      *)
EndpointContents == {"E1", "E2"}
KeyOrders == {"url,weight", "weight,url"}
ProtocolContents == {"P1", "P2"}
EmptyArray == [content |-> "[]", order |-> ""]
EndpointArrays == {[content |-> c, order |-> o] : c \in EndpointContents, o \in KeyOrders}
ProtocolArrays == {[content |-> c, order |-> ""] : c \in ProtocolContents}

\* JSON.stringify of an array
JSONstringify(a) == IF a.content = "[]" THEN <<"[]">> ELSE <<a.content, a.order>>

(* What the contract answers to query_records for the agent: no record      *)
(* field (or null), an empty list, or a list whose first entry expires     *)
(* blocksLeft blocks after the answer's height.                             *)
NoRecord == [kind |-> "none", blocksLeft |-> 0, endpoints |-> "[]", protocols |-> "[]"]
EmptyRecord == [kind |-> "empty", blocksLeft |-> 0, endpoints |-> "[]", protocols |-> "[]"]
Entries ==
  {[kind |-> "entry", blocksLeft |-> b, endpoints |-> e, protocols |-> p] :
     b \in {-1, 599, 600}, e \in EndpointContents, p \in ProtocolContents}
ChainRecords == {NoRecord, EmptyRecord} \cup Entries

\* Network.ts AlmanacContract.isRegistered: Boolean(response.record)
isRegistered(record) == record.kind # "none"

\* Network.ts AlmanacContract.queryAgentRecord, its queries having answered
queryAgentRecord(record) ==
  IF record.kind = "none"
  THEN [threw |-> FALSE, expiry |-> record.blocksLeft * AVERAGE_BLOCK_INTERVAL,
        endpoints |-> EmptyArray, protocols |-> EmptyArray]
  ELSE IF record.kind = "empty"
  THEN [threw |-> TRUE, expiry |-> 0, endpoints |-> EmptyArray, protocols |-> EmptyArray]
  ELSE [threw |-> FALSE, expiry |-> record.blocksLeft * AVERAGE_BLOCK_INTERVAL,
        endpoints |-> [content |-> record.endpoints, order |-> "url,weight"],
        protocols |-> [content |-> record.protocols, order |-> ""]]

\* Registration.ts LedgerBasedRegistrationPolicy.register, lines 252-257
NeedsRegistration(record, eps, protocols) ==
  LET q == queryAgentRecord(record)
  IN \/ ~isRegistered(record)
     \/ q.expiry < REGISTRATION_UPDATE_INTERVAL_SECONDS
     \/ JSONstringify(eps) # JSONstringify(q.endpoints)
     \/ JSONstringify(protocols) # JSONstringify(q.protocols)

\* A register() that submits whatever the balance is.
Funding_unchecked(balance, testnet) == "register"

\* Registration.ts LedgerBasedRegistrationPolicy.register, lines 259-265
Funding(balance, testnet) ==
  IF balance < REGISTRATION_FEE
  THEN (IF testnet THEN "faucet" ELSE "InsufficientFundsError")
  ELSE "register"

\* A constructor that builds the ledger policy from any one of the three.
HasLedgerPolicy_anyOf(ledger, wal, almanacContract) == ledger \/ wal \/ almanacContract

\* Registration.ts DefaultRegistrationPolicy constructor: ledger && wallet && almanacContract
HasLedgerPolicy(ledger, wal, almanacContract) == ledger /\ wal /\ almanacContract

\* Registration.ts almanacApiPost: true iff one of the retries posts get an
\* ok response; firstOk is the first such post, 0 when there is none
almanacApiPost(retries, firstOk) == firstOk \in 1..retries

\* Network.ts AlmanacContract.getRegistrationMsg: the record the contract stores
Registered(eps, protocols) ==
  [kind |-> "entry", blocksLeft |-> 600, endpoints |-> eps.content,
   protocols |-> protocols.content]

NoPolicy ==
  [kind |-> "none", ledger |-> FALSE, wallet |-> FALSE, contract |-> FALSE,
   testnet |-> TRUE, endpoints |-> EmptyArray, protocols |-> EmptyArray,
   chainAtCall |-> NoRecord]
NoOutcome == [api |-> "pending", ledger |-> "pending", overall |-> "pending"]

\* No register() call has been made.
RegQuiet ==
  /\ regPc = "idle"
  /\ policy = NoPolicy
  /\ trace = <<>>
  /\ outcome = NoOutcome

\* What no call has touched yet.
Quiet ==
  /\ pc = "idle"
  /\ call = NoCall
  /\ stack = <<>>
  /\ ret = NoRet
  /\ calls = <<>>
  /\ rets = NoRets
  /\ apiSeen = NoApiResponse
  /\ sync = FALSE
  /\ env = NoEnvelope
  /\ endpoints = <<>>
  /\ tried = <<>>
  /\ accepted = NoEnvelope
  /\ handled = <<>>
  /\ result = NoResult

\* The registries the dispatcher can hold when a call starts.
SinkMaps ==
  { <<>>,
    [a \in {<<"agent1qA">>} |-> <<"sinkA">>],
    [a \in {<<"agent1qB">>} |-> <<"sinkB">>],
    [a \in {<<"agent1qA">>} |-> <<"sinkA", "sinkA2">>] }

\* -------------------------------------------------- quiet auxiliary values
NoPost ==
  [pc |-> "idle", caller |-> "none", retries |-> 0, retry |-> 0, posts |-> 0,
   last |-> "none", slept |-> <<>>, result |-> "none", outcome |-> "none"]
NoTx ==
  [pc |-> "idle", kind |-> "none", timeout |-> 0, poll |-> 0, elapsed |-> 0,
   polls |-> 0, threw |-> 0, last |-> "none", submitted |-> FALSE,
   found |-> FALSE, result |-> "none"]
NoFaucet ==
  [pc |-> "idle", uid |-> "none", retryAttempts |-> 0, checks |-> 0,
   last |-> "none", result |-> "none"]
Callers == 1..MaxCallers
NoCaller == [pc |-> "idle", net |-> "none", got |-> 0]
NoConn ==
  [client |-> [n \in Networks |-> 0], established |-> [n \in Networks |-> 0],
   callers |-> [c \in Callers |-> NoCaller]]
NoDisp ==
  [pc |-> "idle", dest |-> <<"none">>, attached |-> FALSE, k |-> 0, cur |-> "none",
   start |-> <<>>, invoked |-> <<>>, open |-> 0, changes |-> 0, failed |-> FALSE,
   result |-> "none"]
NoBatch ==
  [pc |-> "idle", records |-> <<>>, identities |-> {}, testnet |-> TRUE,
   balance |-> 0, funded |-> FALSE, external |-> FALSE, broadcasts |-> 0,
   messages |-> 0, result |-> "none"]
NoHist ==
  [now |-> 0, ticks |-> 0, envelopes |-> <<>>, op |-> "none", at |-> 0,
   before |-> <<>>, added |-> <<>>]

\* No function call is under study.
NoFn == [op |-> "none"]

PostQuiet == post = NoPost
TxQuiet == tx = NoTx
FaucetQuiet == faucet = NoFaucet
ConnQuiet == conn = NoConn
DispQuiet == disp = NoDisp
BatchQuiet == batch = NoBatch
HistQuiet == hist = NoHist
FnQuiet == fn = NoFn

AuxQuiet ==
  /\ PostQuiet
  /\ TxQuiet
  /\ FaucetQuiet
  /\ ConnQuiet
  /\ DispQuiet
  /\ BatchQuiet
  /\ HistQuiet
  /\ FnQuiet

\* The send pipeline and the registration policies are idle.
CoreQuiet ==
  /\ Quiet
  /\ clients = {}
  /\ sinks = <<>>
  /\ RegQuiet
  /\ chain = NoRecord
  /\ wallet = 0

\* Everything but the function call under study is idle.
OthersQuiet ==
  /\ CoreQuiet
  /\ PostQuiet /\ TxQuiet /\ FaucetQuiet /\ ConnQuiet
  /\ DispQuiet /\ BatchQuiet /\ HistQuiet

InitResolve ==
  /\ Quiet
  /\ clients = {}
  /\ sinks = <<>>
  /\ RegQuiet
  /\ chain = NoRecord
  /\ wallet = 0
  /\ AuxQuiet

InitDeliver ==
  /\ Quiet
  /\ clients = {}
  /\ sinks \in SinkMaps
  /\ RegQuiet
  /\ chain = NoRecord
  /\ wallet = 0
  /\ AuxQuiet

InitReg ==
  /\ Quiet
  /\ clients = {}
  /\ sinks = <<>>
  /\ RegQuiet
  /\ chain \in ChainRecords
  /\ wallet \in {REGISTRATION_FEE - 1, REGISTRATION_FEE}
  /\ AuxQuiet

\* ------------------------------------------------------- resolver machine
Frame(resolver, destination) == [resolver |-> resolver, dest |-> destination, at |-> "start"]
Top == stack[Len(stack)]
Running(resolver) ==
  /\ pc = "resolving"
  /\ stack # <<>>
  /\ Top.resolver = resolver
  /\ Top.at = "start"

\* The running resolver returns r to its caller.
Return(r, record) ==
  /\ stack' = SubSeq(stack, 1, Len(stack) - 1)
  /\ ret' = r
  /\ rets' = IF record THEN [rets EXCEPT ![Top.resolver] = r] ELSE rets
  /\ UNCHANGED calls

\* The running resolver awaits callee.resolve(destination).
Delegate(callee, destination, record) ==
  /\ stack' = [stack EXCEPT ![Len(stack)].at = "wait"] \o <<Frame(callee, destination)>>
  /\ calls' = IF record THEN Append(calls, <<callee, destination>>) ELSE calls
  /\ UNCHANGED <<ret, rets>>

\* Resolver.ts GlobalResolver.resolve: the sub-resolver it delegates to, "none" for a miss
\* A choice that does not look at the prefix.
GlobalResolver_choice_anyPrefix(destination) ==
  LET parsed == parseIdentifier(destination)
  IN IF parsed[3] # <<>> THEN "AlmanacApi" ELSE "NameService"

GlobalResolver_choice(destination) ==
  LET parsed == parseIdentifier(destination)
  IN IF isValidPrefix(parsed[1])
     THEN (IF parsed[3] # <<>> THEN "AlmanacApi" ELSE "NameService")
     ELSE "none"

GlobalResolve(record) ==
  /\ Running("Global")
  /\ LET choice == GlobalResolver_choice(Top.dest)
     IN IF choice = "none"
        THEN Return(Miss, record)
        ELSE Delegate(choice, Top.dest, record)
  /\ UNCHANGED <<pc, call, apiSeen, clients, sync, env, endpoints, tried,
                 accepted, sinks, handled, result>>
  /\ UNCHANGED regVars
  /\ UNCHANGED auxVars

\* Resolver.ts AlmanacApiResolver.resolve: the destination the fallback resolves
AlmanacApiResolver_fallbackDestination(destination) == destination

\* Resolver.ts AlmanacApiResolver.resolve up to the fallback call
AlmanacApiResolve(record) ==
  /\ Running("AlmanacApi")
  /\ \E resp \in ApiResponses :
     \E values \in DrawsIf(_apiResolve_accepts(resp), Len(resp.endpoints)) :
       LET r == _apiResolve(Top.dest, resp, values, EffectiveMax(call.maxEndpoints))
       IN /\ apiSeen' = IF record THEN Seen(resp) ELSE apiSeen
          /\ IF r.address # Null
             THEN Return(r, record)
             ELSE Delegate("AlmanacContract",
                           AlmanacApiResolver_fallbackDestination(Top.dest), record)
  /\ UNCHANGED <<pc, call, clients, sync, env, endpoints, tried,
                 accepted, sinks, handled, result>>
  /\ UNCHANGED regVars
  /\ UNCHANGED auxVars

\* Network.ts getLedger: connects only when no client is memoized for the network
AlmanacContractResolve(record) ==
  /\ Running("AlmanacContract")
  /\ LET net == NetOf(IsTestnet(Top.dest))
     IN \E o \in ContractOutcomes :
        \E values \in DrawsIf(AlmanacContractResolver_samples(o), Len(o.endpoints)) :
          /\ (net \in clients => o.connect = "ok")
          /\ clients' = IF o.connect = "ok" THEN clients \cup {net} ELSE clients
          /\ Return(AlmanacContractResolver_resolve(Top.dest, o, values,
                                                   EffectiveMax(call.maxEndpoints)),
                    record)
  /\ UNCHANGED <<pc, call, apiSeen, sync, env, endpoints, tried,
                 accepted, sinks, handled, result>>
  /\ UNCHANGED regVars
  /\ UNCHANGED auxVars

\* Resolver.ts NameServiceResolver.resolve
NameServiceResolve(record) ==
  /\ Running("NameService")
  /\ LET parsed == parseIdentifier(Top.dest)
         net == NetOf(parsed[1] # MAINNET_PREFIX)
     IN \E o \in NameOutcomes : \E values \in Draws(Len(o.addresses)) :
          /\ (net \in clients => o.connect = "ok")
          /\ clients' = IF o.connect = "ok" THEN clients \cup {net} ELSE clients
          /\ LET a == getAgentAddress(o, values)
             IN IF a.threw THEN Return(a, record)
                ELSE IF a.address # Null THEN Delegate("AlmanacApi", a.address, record)
                ELSE Return(Miss, record)
  /\ UNCHANGED <<pc, call, apiSeen, sync, env, endpoints, tried,
                 accepted, sinks, handled, result>>
  /\ UNCHANGED regVars
  /\ UNCHANGED auxVars

RulesBasedResolve(record) ==
  /\ Running("RulesBased")
  /\ Return(RulesBasedResolver_resolve(Top.dest, call.rule, EffectiveMax(call.maxEndpoints)),
            record)
  /\ UNCHANGED <<pc, call, apiSeen, clients, sync, env, endpoints, tried,
                 accepted, sinks, handled, result>>
  /\ UNCHANGED regVars
  /\ UNCHANGED auxVars

\* return await resolver.resolve(...): the caller returns what the callee
\* returned, and rejects when the callee rejected.
ResolverReturn(record) ==
  /\ pc = "resolving"
  /\ stack # <<>>
  /\ Top.at = "wait"
  /\ Return(ret, record)
  /\ UNCHANGED <<pc, call, apiSeen, clients, sync, env, endpoints, tried,
                 accepted, sinks, handled, result>>
  /\ UNCHANGED regVars
  /\ UNCHANGED auxVars

ResolverStep(record) ==
  \/ GlobalResolve(record)
  \/ AlmanacApiResolve(record)
  \/ AlmanacContractResolve(record)
  \/ NameServiceResolve(record)
  \/ RulesBasedResolve(record)
  \/ ResolverReturn(record)

\* ------------------------------------------------------ resolve() on its own
\* A caller invokes resolver.resolve(destination) on a resolver it built.
Resolve ==
  /\ pc = "idle"
  /\ \E d \in Destinations, r \in Resolvers, m \in {0, 1}, rule \in Rules :
       /\ (r # "RulesBased" => rule.kind = "none")
       /\ call' = [NoCall EXCEPT !.destination = d, !.resolver = r,
                                 !.maxEndpoints = m, !.rule = rule]
       /\ stack' = <<Frame(r, d)>>
       /\ calls' = <<<<r, d>>>>
  /\ pc' = "resolving"
  /\ UNCHANGED <<ret, rets, apiSeen, clients, sync, env, endpoints, tried,
                 accepted, sinks, handled, result>>
  /\ UNCHANGED regVars
  /\ UNCHANGED auxVars

\* The outermost resolve() has settled.
ResolveDone ==
  /\ pc = "resolving"
  /\ stack = <<>>
  /\ pc' = "done"
  /\ result' = IF ret.threw THEN Thrown("resolve") ELSE Returned("pair")
  /\ UNCHANGED <<call, stack, ret, calls, rets, apiSeen, clients, sync, env,
                 endpoints, tried, accepted, sinks, handled>>
  /\ UNCHANGED regVars
  /\ UNCHANGED auxVars

\* The caller is done with the result; the memoized clients and the registry stay.
Reset ==
  /\ pc = "done"
  /\ pc' = "idle"
  /\ call' = NoCall
  /\ stack' = <<>>
  /\ ret' = NoRet
  /\ calls' = <<>>
  /\ rets' = NoRets
  /\ apiSeen' = NoApiResponse
  /\ sync' = FALSE
  /\ env' = NoEnvelope
  /\ endpoints' = <<>>
  /\ tried' = <<>>
  /\ accepted' = NoEnvelope
  /\ handled' = <<>>
  /\ result' = NoResult
  /\ UNCHANGED <<clients, sinks>>
  /\ UNCHANGED regVars
  /\ UNCHANGED auxVars

NextResolve == Resolve \/ ResolverStep(TRUE) \/ ResolveDone \/ Reset

SpecResolve == InitResolve /\ [][NextResolve]_vars

\* ---------------------------------------------------------- sendMessageRaw
\* Communication.ts sendMessageRaw, lines 178-190: the sender address, Absent if none
SenderAddress(sender) ==
  IF sender.kind = "identity" THEN sender.address
  ELSE IF sender.kind = "string" /\ isUserAddress(sender.address) THEN sender.address
  ELSE Absent

\* if (!sender) sender = Identity.generate(): the senders the call goes on with
EffectiveSenders(sender) ==
  IF sender.kind = "undefined"
  THEN {[kind |-> "identity", key |-> k, address |-> AddressOf(k)] : k \in Keys}
  ELSE {sender}

\* !endpoints for an array: an array is truthy, the empty one included
FalsyArray(a) == FALSE

\* !destinationAddress: null and "" are falsy
FalsyAddress(address) == address = Null \/ address = <<>>

\* Communication.ts sendMessageRaw, line 195
ResolutionFailed(r) == FalsyArray(r.endpoints) \/ FalsyAddress(r.address)

\* Communication.ts sendMessageRaw, lines 205-216: the envelope handed on
BuildEnvelope(sender, destinationAddress, messageSchemaDigest, messageBody, now) ==
  LET senderAddress == SenderAddress(sender)
      e == encodePayload(
             NewEnvelope(senderAddress, destinationAddress, <<"s1">>,
                         messageSchemaDigest, TRUE,
                         now + DEFAULT_ENVELOPE_TIMEOUT_SECONDS),
             messageBody)
  IN IF ~isUserAddress(senderAddress) /\ sender.kind = "identity"
     THEN Envelope_sign(e, sender.key)
     ELSE e

\* Communication.ts sendMessageRaw up to the await of resolver.resolve
SendMessageRaw ==
  /\ pc = "idle"
  /\ \E d \in Destinations, s \in Senders, r \in Resolvers, m \in {0, 1}, rule \in Rules :
     \E sender \in EffectiveSenders(s) :
       /\ (r # "RulesBased" => rule.kind = "none")
       /\ call' = [destination |-> d, resolver |-> r, maxEndpoints |-> m,
                   rule |-> rule, sender |-> sender]
       /\ IF SenderAddress(sender) = Absent
          THEN /\ pc' = "done"
               /\ result' = Thrown("Invalid sender address")
               /\ UNCHANGED stack
          ELSE /\ pc' = "resolving"
               /\ stack' = <<Frame(r, d)>>
               /\ UNCHANGED result
  /\ UNCHANGED <<ret, calls, rets, apiSeen, clients, sync, env, endpoints,
                 tried, accepted, sinks, handled>>
  /\ UNCHANGED regVars
  /\ UNCHANGED auxVars

\* Communication.ts sendMessageRaw, lines 194-216: resolver.resolve has settled
AfterResolve ==
  /\ pc = "resolving"
  /\ stack = <<>>
  /\ call.sender.kind # "undefined"
  /\ IF ret.threw
     THEN /\ pc' = "done"
          /\ result' = Thrown("resolve")
          /\ UNCHANGED <<sync, env, endpoints>>
     ELSE IF ResolutionFailed(ret)
     THEN /\ pc' = "done"
          /\ result' = MsgStatus("FAILED", "Failed to resolve destination address", "")
          /\ UNCHANGED <<sync, env, endpoints>>
     ELSE /\ pc' = "delivering"
          /\ \E sy \in BOOLEAN, body \in Bodies, digest \in SchemaDigests :
               /\ sync' = sy
               /\ env' = BuildEnvelope(call.sender, ret.address, digest, body, Now)
          /\ endpoints' = ret.endpoints
          /\ UNCHANGED result
  /\ UNCHANGED <<call, stack, ret, calls, rets, apiSeen, clients, tried,
                 accepted, sinks, handled>>
  /\ UNCHANGED regVars
  /\ UNCHANGED auxVars

\* ----------------------------------------------------- sendExchangeEnvelope
\* A caller hands sendExchangeEnvelope an envelope it built, and endpoints.
SendExchangeEnvelope ==
  /\ pc = "idle"
  /\ \E s \in Senders, target \in AgentAddresses, eps \in EndpointLists, sy \in BOOLEAN,
        body \in Bodies, digest \in SchemaDigests :
       /\ s.kind # "undefined"
       /\ SenderAddress(s) # Absent
       /\ env' = BuildEnvelope(s, target, digest, body, Now)
       /\ endpoints' = eps
       /\ sync' = sy
  /\ pc' = "delivering"
  /\ UNCHANGED <<call, stack, ret, calls, rets, apiSeen, clients, tried,
                 accepted, sinks, handled, result>>
  /\ UNCHANGED regVars
  /\ UNCHANGED auxVars

(* The reply envelopes an endpoint can answer with: any agent as sender and *)
(* target, and no signature, or the sender's or another key's signature     *)
(* over the reply's digest, in bech32 or in base64.                         *)
ReplyBases(e) ==
  {[NewEnvelope(sender, target, e.session, e.schemaDigest, FALSE, 0)
      EXCEPT !.payload = Base64(<<"re">>)] :
     sender \in AgentAddresses, target \in AgentAddresses}
ReplySignatures(r) ==
  {NoSignature}
  \cup {Bech32String("sig", EcSign(k, _digest(r))) : k \in Keys}
  \cup {signB64(k, _digest(r)) : k \in Keys}
Replies(e) ==
  UNION {{[r EXCEPT !.signature = sig] : sig \in ReplySignatures(r)} : r \in ReplyBases(e)}

\* Communication.ts sendExchangeEnvelope, lines 97-108: the reply goes on to
\* dispatchSyncResponseEnvelope
replyPasses(r) == HasSignature(r) => Envelope_verify(r) = "true"

\* Dispatch.ts dispatchMsg: this._sinks.get(destination) || new Set()
Handlers(destination) ==
  IF destination \in DOMAIN sinks THEN sinks[destination] ELSE <<>>

\* Communication.ts dispatchSyncResponseEnvelope, line 137
ReturnsEnvelope == DOMAIN sinks = {}

\* A loop that gives up after its first endpoint.
HasNext_firstOnly(eps, n) == n < Len(eps) /\ n < 1

\* for (const endpoint of endpoints): whether the loop has another endpoint
\* after n attempts
HasNext(eps, n) == n < Len(eps)

\* for (const endpoint of endpoints): the endpoint of attempt n
EndpointAt(eps, n) == eps[n]

Attempting ==
  /\ pc = "delivering"
  /\ HasNext(endpoints, Len(tried))

Attempt(ok, how) ==
  [endpoint |-> EndpointAt(endpoints, Len(tried) + 1), ok |-> ok, how |-> how]

\* fetch throws, or the response is not ok: the loop goes on
AttemptFails ==
  /\ Attempting
  /\ \E how \in {"fetch threw", "not ok"} :
       tried' = Append(tried, Attempt(FALSE, how))
  /\ UNCHANGED <<pc, call, stack, ret, calls, rets, apiSeen, clients, sync, env,
                 endpoints, accepted, sinks, handled, result>>
  /\ UNCHANGED regVars
  /\ UNCHANGED auxVars

\* response.ok and not sync: DELIVERED
AttemptDelivers ==
  /\ Attempting
  /\ ~sync
  /\ tried' = Append(tried, Attempt(TRUE, "delivered"))
  /\ result' = MsgStatus("DELIVERED", "Message successfully delivered via HTTP",
                         EndpointAt(endpoints, Len(tried) + 1))
  /\ pc' = "returned"
  /\ UNCHANGED <<call, stack, ret, calls, rets, apiSeen, clients, sync, env,
                 endpoints, accepted, sinks, handled>>
  /\ UNCHANGED regVars
  /\ UNCHANGED auxVars

\* response.ok and sync, but response.json() or Envelope.modelValidate throws
AttemptBadReply ==
  /\ Attempting
  /\ sync
  /\ tried' = Append(tried, Attempt(TRUE, "bad reply"))
  /\ UNCHANGED <<pc, call, stack, ret, calls, rets, apiSeen, clients, sync, env,
                 endpoints, accepted, sinks, handled, result>>
  /\ UNCHANGED regVars
  /\ UNCHANGED auxVars

\* response.ok and sync, and the body validates as an envelope
AttemptReply ==
  /\ Attempting
  /\ sync
  /\ \E r \in Replies(env) :
       IF ~replyPasses(r)
       THEN /\ tried' = Append(tried, Attempt(TRUE, "unverified"))
            /\ UNCHANGED <<pc, accepted, handled, result>>
       ELSE IF ReturnsEnvelope
       THEN /\ tried' = Append(tried, Attempt(TRUE, "returned"))
            /\ accepted' = r
            /\ result' = Returned("envelope")
            /\ pc' = "returned"
            /\ UNCHANGED handled
       ELSE \E failAt \in 1..(Len(Handlers(r.target)) + 1) :
              LET handlers == Handlers(r.target)
                  invoked == SubSeq(handlers, 1, Min(failAt, Len(handlers)))
              IN /\ handled' = handled \o [i \in 1..Len(invoked) |-> <<r.target, invoked[i]>>]
                 /\ IF failAt <= Len(handlers)
                    THEN /\ tried' = Append(tried, Attempt(TRUE, "dispatch threw"))
                         /\ UNCHANGED <<pc, accepted, result>>
                    ELSE /\ tried' = Append(tried, Attempt(TRUE, "dispatched"))
                         /\ accepted' = r
                         /\ result' = MsgStatus("DELIVERED",
                                                "Sync message successfully delivered via HTTP",
                                                "")
                         /\ pc' = "returned"
  /\ UNCHANGED <<call, stack, ret, calls, rets, apiSeen, clients, sync, env,
                 endpoints, sinks>>
  /\ UNCHANGED regVars
  /\ UNCHANGED auxVars

\* Communication.ts sendExchangeEnvelope, lines 124-132: the loop is over
Exhausted ==
  /\ pc = "delivering"
  /\ ~HasNext(endpoints, Len(tried))
  /\ result' = MsgStatus("FAILED", "Message delivery failed", "")
  /\ pc' = "returned"
  /\ UNCHANGED <<call, stack, ret, calls, rets, apiSeen, clients, sync, env,
                 endpoints, tried, accepted, sinks, handled>>
  /\ UNCHANGED regVars
  /\ UNCHANGED auxVars

Deliver ==
  \/ AttemptFails
  \/ AttemptDelivers
  \/ AttemptBadReply
  \/ AttemptReply
  \/ Exhausted

\* Communication.ts sendMessageRaw, lines 223-233: what is made of the answer
SendReturn ==
  /\ pc = "returned"
  /\ call # NoCall
  /\ pc' = "done"
  /\ IF result.kind # "envelope" THEN UNCHANGED result
     ELSE IF ~HasSignature(env) THEN UNCHANGED result
     ELSE \E responseType \in {"none", "accepts", "rejects"} :
            result' = IF responseType = "none" THEN Returned("json")
                      ELSE IF responseType = "accepts" THEN Returned("model")
                      ELSE Thrown("validation")
  /\ UNCHANGED <<call, stack, ret, calls, rets, apiSeen, clients, sync, env,
                 endpoints, tried, accepted, sinks, handled>>
  /\ UNCHANGED regVars
  /\ UNCHANGED auxVars

\* The caller of sendExchangeEnvelope is done with what it returned.
DeliverDone ==
  /\ pc = "returned"
  /\ call = NoCall
  /\ pc' = "done"
  /\ UNCHANGED <<call, stack, ret, calls, rets, apiSeen, clients, sync, env,
                 endpoints, tried, accepted, sinks, handled, result>>
  /\ UNCHANGED regVars
  /\ UNCHANGED auxVars

NextSend ==
  \/ SendMessageRaw
  \/ ResolverStep(FALSE)
  \/ AfterResolve
  \/ Deliver
  \/ SendReturn
  \/ Reset

SpecSend == InitResolve /\ [][NextSend]_vars

NextDeliver ==
  \/ SendExchangeEnvelope
  \/ Deliver
  \/ DeliverDone
  \/ Reset

SpecDeliver == InitDeliver /\ [][NextDeliver]_vars

\* ------------------------------------------------------------ registration
\* The ledger part of register() ends: resolved, or rejected with an error.
LedgerEnds(how) ==
  /\ regPc' = "done"
  /\ outcome' = [outcome EXCEPT
                   !.ledger = how,
                   !.overall = IF policy.kind = "default" \/ how = "resolved"
                               THEN "resolved" ELSE "threw"]

\* A caller builds a DefaultRegistrationPolicy and calls register().
DefaultRegister ==
  /\ regPc = "idle"
  /\ \E l \in BOOLEAN, w \in BOOLEAN, c \in BOOLEAN, t \in BOOLEAN,
        e \in EndpointArrays, p \in ProtocolArrays :
       policy' = [kind |-> "default", ledger |-> l, wallet |-> w, contract |-> c,
                  testnet |-> t, endpoints |-> e, protocols |-> p,
                  chainAtCall |-> chain]
  /\ regPc' = "api"
  /\ UNCHANGED <<chain, wallet, trace, outcome>>
  /\ UNCHANGED sendVars
  /\ UNCHANGED auxVars

\* Registration.ts DefaultRegistrationPolicy.register, lines 439-443, with
\* AlmanacApiRegistrationPolicy.register: attestation.sign, then almanacApiPost
ApiRegister ==
  /\ regPc = "api"
  /\ \E signed \in BOOLEAN, firstOk \in 0..ALMANAC_API_MAX_RETRIES :
       LET success == signed /\ almanacApiPost(ALMANAC_API_MAX_RETRIES, firstOk)
           api == IF success THEN "ok" ELSE "failed"
       IN /\ trace' = Append(trace, "apiPolicy.register")
          /\ IF HasLedgerPolicy(policy.ledger, policy.wallet, policy.contract)
             THEN /\ regPc' = "version"
                  /\ outcome' = [outcome EXCEPT !.api = api]
             ELSE /\ regPc' = "done"
                  /\ outcome' = [api |-> api, ledger |-> "skipped", overall |-> "resolved"]
  /\ UNCHANGED <<policy, chain, wallet>>
  /\ UNCHANGED sendVars
  /\ UNCHANGED auxVars

\* A caller builds a LedgerBasedRegistrationPolicy and calls register().
LedgerRegister ==
  /\ regPc = "idle"
  /\ \E t \in BOOLEAN, e \in EndpointArrays, p \in ProtocolArrays :
       policy' = [kind |-> "ledger", ledger |-> TRUE, wallet |-> TRUE, contract |-> TRUE,
                  testnet |-> t, endpoints |-> e, protocols |-> p,
                  chainAtCall |-> chain]
  /\ regPc' = "version"
  /\ UNCHANGED <<chain, wallet, trace, outcome>>
  /\ UNCHANGED sendVars
  /\ UNCHANGED auxVars

\* Registration.ts LedgerBasedRegistrationPolicy.checkContractVersion: another
\* version is only logged, a failed query rejects
LedgerCheckVersion ==
  /\ regPc = "version"
  /\ trace' = Append(trace, "ledgerPolicy.register")
  /\ \E version \in {"match", "mismatch", "queryfail"} :
       IF version = "queryfail"
       THEN LedgerEnds("Error")
       ELSE /\ regPc' = "queries"
            /\ UNCHANGED outcome
  /\ UNCHANGED <<policy, chain, wallet>>
  /\ UNCHANGED sendVars
  /\ UNCHANGED auxVars

\* Registration.ts LedgerBasedRegistrationPolicy.register, lines 247-257:
\* isRegistered, getExpiry, getEndpoints, getProtocols and the test
LedgerQueries ==
  /\ regPc = "queries"
  /\ \E answered \in BOOLEAN :
       IF ~answered THEN LedgerEnds("Error")
       ELSE IF queryAgentRecord(chain).threw THEN LedgerEnds("TypeError")
       ELSE IF NeedsRegistration(chain, policy.endpoints, policy.protocols)
       THEN /\ regPc' = "balance"
            /\ UNCHANGED outcome
       ELSE LedgerEnds("resolved")
  /\ UNCHANGED <<policy, chain, wallet, trace>>
  /\ UNCHANGED sendVars
  /\ UNCHANGED auxVars

\* Registration.ts LedgerBasedRegistrationPolicy.register, lines 258-265
LedgerBalance ==
  /\ regPc = "balance"
  /\ \E answered \in BOOLEAN :
       IF ~answered
       THEN /\ trace' = Append(trace, "queryBankBalance:failed")
            /\ LedgerEnds("Error")
       ELSE LET funding == Funding(wallet, policy.testnet)
            IN /\ trace' = Append(trace, IF wallet < REGISTRATION_FEE
                                         THEN "queryBankBalance:low"
                                         ELSE "queryBankBalance:enough")
               /\ IF funding = "InsufficientFundsError"
                  THEN LedgerEnds("InsufficientFundsError")
                  ELSE /\ regPc' = funding
                       /\ UNCHANGED outcome
  /\ UNCHANGED <<policy, chain, wallet>>
  /\ UNCHANGED sendVars
  /\ UNCHANGED auxVars

\* Network.ts addTestnetFunds: FaucetApi.getWealth completes or throws
LedgerFaucet ==
  /\ regPc = "faucet"
  /\ \E granted \in {0, 1, REGISTRATION_FEE} :
       IF granted = 0
       THEN /\ trace' = trace \o <<"addTestnetFunds", "addTestnetFunds:threw">>
            /\ LedgerEnds("Error")
            /\ UNCHANGED wallet
       ELSE /\ trace' = trace \o <<"addTestnetFunds", "addTestnetFunds:complete">>
            /\ wallet' = wallet + granted
            /\ regPc' = "register"
            /\ UNCHANGED outcome
  /\ UNCHANGED <<policy, chain>>
  /\ UNCHANGED sendVars
  /\ UNCHANGED auxVars

(* Registration.ts LedgerBasedRegistrationPolicy.register, lines 267-283,   *)
(* with Network.ts AlmanacContract.register: signRegistration may throw;    *)
(* getAccounts or client.execute may fail (execute does when the wallet     *)
(* cannot pay the fee); after execute the record is stored, and             *)
(* waitForTxToComplete returns or times out.                                *)
LedgerSubmit ==
  /\ regPc = "register"
  /\ \E how \in {"sign throws", "rejected", "stored", "stored, wait timed out"} :
       /\ (wallet < REGISTRATION_FEE => how \in {"sign throws", "rejected"})
       /\ trace' = IF how = "sign throws" THEN trace
                   ELSE Append(trace, "almanacContract.register")
       /\ IF how \in {"sign throws", "rejected"}
          THEN UNCHANGED <<chain, wallet>>
          ELSE /\ chain' = Registered(policy.endpoints, policy.protocols)
               /\ wallet' = wallet - REGISTRATION_FEE
       /\ LedgerEnds(IF how = "stored" THEN "resolved" ELSE "Error")
  /\ UNCHANGED policy
  /\ UNCHANGED sendVars
  /\ UNCHANGED auxVars

\* The caller is done with register(); the chain and the wallet stay.
RegReset ==
  /\ regPc = "done"
  /\ regPc' = "idle"
  /\ policy' = NoPolicy
  /\ trace' = <<>>
  /\ outcome' = NoOutcome
  /\ UNCHANGED <<chain, wallet>>
  /\ UNCHANGED sendVars
  /\ UNCHANGED auxVars

NextReg ==
  \/ DefaultRegister
  \/ ApiRegister
  \/ LedgerRegister
  \/ LedgerCheckVersion
  \/ LedgerQueries
  \/ LedgerBalance
  \/ LedgerFaucet
  \/ LedgerSubmit
  \/ RegReset

SpecReg == InitReg /\ [][NextReg]_vars

\* ------------------------------------------------------------ almanacApiPost
\* A loop that makes one more pass than retries.
PostLoopContinues_onceMore(retry, retries) == retry <= retries

\* Registration.ts almanacApiPost, line 125: retry < retries
PostLoopContinues(retry, retries) == retry < retries

\* Registration.ts generateBackoffTime: Math.min(2 ** (retry + 6), 131072) / 1000,
\* given in thousandths
generateBackoffTime(retry) == Min(2 ^ (retry + 6), 131072)

\* almanacApiPost returns r; AlmanacApiRegistrationPolicy.register resolves on
\* true and throws on false.
PostReturns(p, r) ==
  [p EXCEPT !.pc = "done", !.result = r,
            !.outcome = IF p.caller = "policy"
                        THEN (IF r = "true" THEN "resolved" ELSE "threw")
                        ELSE "none"]

\* A caller calls almanacApiPost(url, data, retries).
AlmanacApiPost ==
  /\ post.pc = "idle"
  /\ \E retries \in 0..MaxRetries :
       post' = [NoPost EXCEPT !.pc = "loop", !.caller = "direct", !.retries = retries]
  /\ UNCHANGED <<sendVars, regVars, tx, faucet, conn, disp, batch, hist, fn>>

\* Registration.ts AlmanacApiRegistrationPolicy.register, lines 181-189:
\* attestation.sign throws, or almanacApiPost is called with maxRetries
ApiPolicyRegister ==
  /\ post.pc = "idle"
  /\ \E signed \in BOOLEAN :
       post' = IF signed
               THEN [NoPost EXCEPT !.pc = "loop", !.caller = "policy",
                                   !.retries = ALMANAC_API_MAX_RETRIES]
               ELSE [NoPost EXCEPT !.pc = "done", !.caller = "policy",
                                   !.outcome = "threw"]
  /\ UNCHANGED <<sendVars, regVars, tx, faucet, conn, disp, batch, hist, fn>>

\* Registration.ts almanacApiPost, lines 126-143: one pass of the loop
PostAttempt ==
  /\ post.pc = "loop"
  /\ PostLoopContinues(post.retry, post.retries)
  /\ \E answer \in {"ok", "not ok", "throw"} :
       LET p == [post EXCEPT !.posts = @ + 1, !.last = answer]
       IN post' = IF answer = "ok" THEN PostReturns(p, "true")
                  ELSE IF answer = "not ok" THEN [p EXCEPT !.retry = @ + 1]
                  ELSE IF post.retry = post.retries - 1 THEN PostReturns(p, "false")
                  ELSE [p EXCEPT !.pc = "sleeping"]
  /\ UNCHANGED <<sendVars, regVars, tx, faucet, conn, disp, batch, hist, fn>>

\* setTimeout(resolve, delay): delay is in milliseconds, here in thousandths
\* of one; the timer truncates it to a whole number and waits 1 ms for less.
\* Gives the wait in microseconds.
setTimeout(delay) == IF delay < 1000 THEN 1000 ELSE (delay \div 1000) * 1000

\* Registration.ts almanacApiPost, line 143: the backoff timer fires; slept
\* holds the microseconds waited
PostSleep ==
  /\ post.pc = "sleeping"
  /\ post' = [post EXCEPT !.pc = "loop", !.retry = @ + 1,
                          !.slept = Append(@, setTimeout(generateBackoffTime(post.retry)))]
  /\ UNCHANGED <<sendVars, regVars, tx, faucet, conn, disp, batch, hist, fn>>

\* Registration.ts almanacApiPost, line 146: the loop is over
PostExhausted ==
  /\ post.pc = "loop"
  /\ ~PostLoopContinues(post.retry, post.retries)
  /\ post' = PostReturns(post, "false")
  /\ UNCHANGED <<sendVars, regVars, tx, faucet, conn, disp, batch, hist, fn>>

\* The caller is done with the answer.
PostReset ==
  /\ post.pc = "done"
  /\ post' = NoPost
  /\ UNCHANGED <<sendVars, regVars, tx, faucet, conn, disp, batch, hist, fn>>

InitPost ==
  /\ CoreQuiet
  /\ AuxQuiet

NextPost ==
  \/ AlmanacApiPost
  \/ ApiPolicyRegister
  \/ PostAttempt
  \/ PostSleep
  \/ PostExhausted
  \/ PostReset

\* Every fetch settles and every timer fires.
SpecPost ==
  /\ InitPost
  /\ [][NextPost]_vars
  /\ WF_vars(PostAttempt)
  /\ WF_vars(PostSleep)
  /\ WF_vars(PostExhausted)

\* ------------------------------------- waitForTxToComplete, contract register
\* A poll that takes any answer of getTx for the transaction.
TxObserved_anyAnswer(answer) == answer # "throw"

\* Network.ts waitForTxToComplete, line 189: if (result) return result
TxObserved(answer) == answer = "found"

\* A timeout test that already fires when the time is up to the timeout.
TimedOut_early(elapsed, timeout) == elapsed >= timeout

\* Network.ts waitForTxToComplete, line 194: Date.now() - startTime > timeoutMs
TimedOut(elapsed, timeout) == elapsed > timeout

(* What can stop AlmanacContract.register / registerBatch before a          *)
(* transaction is broadcast: no contract address, no account in the wallet, *)
(* for a batch a record without timestamp or signature, or a failing        *)
(* client.execute / signAndBroadcast.                                       *)
SubmitOutcomes(kind) ==
  {"ok", "Contract address not set", "No account found in wallet", "broadcast failed"}
  \cup (IF kind = "registerBatch"
        THEN {"Agent record is missing timestamp", "Agent record is not signed"}
        ELSE {})

\* A caller calls waitForTxToComplete(txHash, client, timeoutMs, pollIntervalMs).
WaitForTx ==
  /\ tx.pc = "idle"
  /\ \E timeout \in 0..MaxTimeout, poll \in 1..MaxPoll :
       tx' = [NoTx EXCEPT !.pc = "poll", !.kind = "wait",
                          !.timeout = timeout, !.poll = poll]
  /\ UNCHANGED <<sendVars, regVars, post, faucet, conn, disp, batch, hist, fn>>

\* Network.ts AlmanacContract.register / registerBatch up to the call of
\* waitForTxToComplete with its default timeout and poll interval
ContractRegister ==
  /\ tx.pc = "idle"
  /\ \E kind \in {"register", "registerBatch"} : \E o \in SubmitOutcomes(kind) :
       tx' = IF o = "ok"
             THEN [NoTx EXCEPT !.pc = "poll", !.kind = kind, !.submitted = TRUE,
                               !.timeout = DEFAULT_QUERY_TIMEOUT_SECS,
                               !.poll = DEFAULT_QUERY_INTERVAL_SECS]
             ELSE [NoTx EXCEPT !.pc = "done", !.kind = kind, !.result = o]
  /\ UNCHANGED <<sendVars, regVars, post, faucet, conn, disp, batch, hist, fn>>

\* Network.ts waitForTxToComplete, lines 187-196: getTx and the timeout test
TxPoll ==
  /\ tx.pc = "poll"
  /\ \E answer \in {"found", "null", "throw"}, took \in {0, 1} :
       LET t == [tx EXCEPT !.polls = @ + 1, !.last = answer,
                           !.elapsed = @ + took,
                           !.threw = IF answer = "throw" THEN @ + 1 ELSE @,
                           !.found = (answer = "found")]
       IN tx' = IF TxObserved(answer)
                THEN [t EXCEPT !.pc = "done",
                               !.result = IF tx.kind = "wait" THEN "returned" ELSE "resolved"]
                ELSE IF TimedOut(t.elapsed, t.timeout)
                THEN [t EXCEPT !.pc = "done", !.result = "Transaction query timeout"]
                ELSE [t EXCEPT !.pc = "sleep"]
  /\ UNCHANGED <<sendVars, regVars, post, faucet, conn, disp, batch, hist, fn>>

\* Network.ts waitForTxToComplete, line 198: the poll timer fires, on time or late
TxSleep ==
  /\ tx.pc = "sleep"
  /\ \E late \in {0, 1} :
       tx' = [tx EXCEPT !.pc = "poll", !.elapsed = @ + tx.poll + late]
  /\ UNCHANGED <<sendVars, regVars, post, faucet, conn, disp, batch, hist, fn>>

\* The caller is done with the answer.
TxReset ==
  /\ tx.pc = "done"
  /\ tx' = NoTx
  /\ UNCHANGED <<sendVars, regVars, post, faucet, conn, disp, batch, hist, fn>>

InitTx ==
  /\ CoreQuiet
  /\ AuxQuiet

NextTx ==
  \/ WaitForTx
  \/ ContractRegister
  \/ TxPoll
  \/ TxSleep
  \/ TxReset

\* Every getTx call returns or fails, and every timer fires.
SpecTx ==
  /\ InitTx
  /\ [][NextTx]_vars
  /\ WF_vars(TxPoll)
  /\ WF_vars(TxSleep)

\* ------------------------------------------------------- FaucetApi.getWealth
\* A loop test that lets the counter reach zero inside the loop.
FaucetLoopContinues_atZero(retryAttempts) == retryAttempts >= 0

\* Network.ts FaucetApi.getWealth, line 893: while (retryAttempts > 0)
FaucetLoopContinues(retryAttempts) == retryAttempts > 0

(* createFaucetClaim gives data.uuid of an ok response (a string, possibly  *)
(* empty, or undefined when the body has none) and null otherwise.          *)
FaucetClaimAnswers == {"uuid", "empty", "undefined", "null"}

(* checkFaucetClaim gives null when the request fails, is not ok or has no  *)
(* claim in its body, and otherwise the status the body carries, which may  *)
(* be none of the four the type names.                                      *)
FaucetCheckAnswers == {"null", "pending", "processing", "complete", "failed", "other"}

\* Network.ts FaucetApi.getWealth, lines 888-892
GetWealth ==
  /\ faucet.pc = "idle"
  /\ \E uid \in FaucetClaimAnswers :
       faucet' = IF uid = "uuid"
                 THEN [NoFaucet EXCEPT !.pc = "check", !.uid = uid,
                                       !.retryAttempts = MAX_RETRY_ATTEMPTS]
                 ELSE [NoFaucet EXCEPT !.pc = "done", !.uid = uid,
                                       !.result = "Unable to create faucet claim"]
  /\ UNCHANGED <<sendVars, regVars, post, tx, conn, disp, batch, hist, fn>>

\* Network.ts FaucetApi.getWealth, lines 894-898: one claim-status check
FaucetCheck ==
  /\ faucet.pc = "check"
  /\ \E status \in FaucetCheckAnswers :
       LET f == [faucet EXCEPT !.checks = @ + 1, !.last = status]
       IN faucet' =
            CASE status = "null" ->
                   [f EXCEPT !.pc = "done", !.result = "Failed to check faucet claim status"]
              [] status = "complete" -> [f EXCEPT !.pc = "final"]
              [] status = "failed" ->
                   [f EXCEPT !.pc = "done", !.result = "Failed to get wealth"]
              [] OTHER -> [f EXCEPT !.pc = "sleep"]
  /\ UNCHANGED <<sendVars, regVars, post, tx, conn, disp, batch, hist, fn>>

\* Network.ts FaucetApi.getWealth, lines 900-904: the poll timer fires, the
\* counter goes down, the loop test and the test after the loop
FaucetSleep ==
  /\ faucet.pc = "sleep"
  /\ LET f == [faucet EXCEPT !.retryAttempts = @ - 1]
     IN faucet' = IF FaucetLoopContinues(f.retryAttempts)
                  THEN [f EXCEPT !.pc = "check"]
                  ELSE IF f.retryAttempts = 0
                  THEN [f EXCEPT !.pc = "done", !.result = "Faucet claim check timed out"]
                  ELSE [f EXCEPT !.pc = "final"]
  /\ UNCHANGED <<sendVars, regVars, post, tx, conn, disp, batch, hist, fn>>

\* Network.ts FaucetApi.getWealth, line 905: the final wait, then the return
FaucetFinalWait ==
  /\ faucet.pc = "final"
  /\ faucet' = [faucet EXCEPT !.pc = "done", !.result = "returned"]
  /\ UNCHANGED <<sendVars, regVars, post, tx, conn, disp, batch, hist, fn>>

\* The caller is done with the answer.
FaucetReset ==
  /\ faucet.pc = "done"
  /\ faucet' = NoFaucet
  /\ UNCHANGED <<sendVars, regVars, post, tx, conn, disp, batch, hist, fn>>

InitFaucet ==
  /\ CoreQuiet
  /\ AuxQuiet

NextFaucet ==
  \/ GetWealth
  \/ FaucetCheck
  \/ FaucetSleep
  \/ FaucetFinalWait
  \/ FaucetReset

\* Every fetch returns or fails, and every timer fires.
SpecFaucet ==
  /\ InitFaucet
  /\ [][NextFaucet]_vars
  /\ WF_vars(FaucetCheck)
  /\ WF_vars(FaucetSleep)
  /\ WF_vars(FaucetFinalWait)

\* ------------------------------------------------------------------ getLedger
(* conn.client[n] is the module variable _testnetClient / _mainnetClient: 0 *)
(* while it is undefined, else the client instance it holds. Instances are  *)
(* numbered per network in the order CosmWasmClient.connect created them,   *)
(* and conn.established[n] counts them.                                     *)

\* Network.ts getLedger, lines 112-115 / 119-122: the test of the module
\* variable, then either the return of the client it holds or the call of
\* CosmWasmClient.connect, at whose await the caller is suspended
GetLedger(c) ==
  /\ conn.callers[c].pc = "idle"
  /\ \E test \in BOOLEAN :
       LET n == NetOf(test)
       IN conn' = IF conn.client[n] = 0
                  THEN [conn EXCEPT !.callers[c] = [pc |-> "connecting", net |-> n, got |-> 0]]
                  ELSE [conn EXCEPT !.callers[c] =
                                       [pc |-> "done", net |-> n, got |-> conn.client[n]]]
  /\ UNCHANGED <<sendVars, regVars, post, tx, faucet, disp, batch, hist, fn>>

\* Network.ts getLedger, lines 114-116 / 120-122: connect resolves with a new
\* client, which is assigned to the module variable and returned
LedgerConnected(c) ==
  /\ conn.callers[c].pc = "connecting"
  /\ LET n == conn.callers[c].net
         id == conn.established[n] + 1
     IN conn' = [conn EXCEPT !.established[n] = id, !.client[n] = id,
                             !.callers[c] = [pc |-> "done", net |-> n, got |-> id]]
  /\ UNCHANGED <<sendVars, regVars, post, tx, faucet, disp, batch, hist, fn>>

\* Network.ts getLedger, line 114 / 120: connect rejects, and so does getLedger
LedgerConnectFails(c) ==
  /\ conn.callers[c].pc = "connecting"
  /\ conn' = [conn EXCEPT !.callers[c] = [@ EXCEPT !.pc = "threw"]]
  /\ UNCHANGED <<sendVars, regVars, post, tx, faucet, disp, batch, hist, fn>>

\* The caller is done with the answer.
LedgerReset(c) ==
  /\ conn.callers[c].pc \in {"done", "threw"}
  /\ conn' = [conn EXCEPT !.callers[c] = NoCaller]
  /\ UNCHANGED <<sendVars, regVars, post, tx, faucet, disp, batch, hist, fn>>

InitConn ==
  /\ CoreQuiet
  /\ AuxQuiet

NextConn ==
  \E c \in Callers :
    \/ GetLedger(c)
    \/ LedgerConnected(c)
    \/ LedgerConnectFails(c)
    \/ LedgerReset(c)

SpecConn == InitConn /\ [][NextConn]_vars

\* ------------------------------------------------------------------ Dispatcher
(* The registry is the variable sinks: a key is present exactly while its   *)
(* Set is non-empty, and a Set is the sequence of its members in insertion  *)
(* order. A running dispatchMsg iterates the Set object it read at its      *)
(* start: disp.attached says that this object is still the one stored under *)
(* disp.dest, disp.k how many of its present members the iterator has       *)
(* passed. disp.start and disp.invoked record the members at the start and  *)
(* the sinks whose handleMessage was called.                                *)
DispAddresses == {<<"agent1qA">>, <<"agent1qB">>}
DispSinks == {"sinkA", "sinkB"}

\* Set.prototype.add: a member keeps its place, a new one goes last
SetAdd(set, s) ==
  IF \E i \in 1..Len(set) : set[i] = s THEN set ELSE Append(set, s)

\* Set.prototype.delete
SetDelete(set, s) == SelectSeq(set, LAMBDA x : x # s)

\* The place of s in the Set, 0 when it is no member
IndexIn(set, s) ==
  IF \E i \in 1..Len(set) : set[i] = s
  THEN CHOOSE i \in 1..Len(set) : set[i] = s
  ELSE 0

\* Map.prototype.set and Map.prototype.delete on the registry
WithKey(reg, a, set) ==
  [x \in (DOMAIN reg) \cup {a} |-> IF x = a THEN set ELSE reg[x]]
WithoutKey(reg, a) ==
  [x \in (DOMAIN reg) \ {a} |-> reg[x]]

\* Dispatch.ts Dispatcher.register: the registry after register(address, sink)
Dispatcher_register(address, sink) ==
  WithKey(sinks, address, SetAdd(Handlers(address), sink))

Dispatcher_unregister_keepingKey(address, sink) ==
  IF address \notin DOMAIN sinks THEN sinks
  ELSE WithKey(sinks, address, SetDelete(Handlers(address), sink))

\* Dispatch.ts Dispatcher.unregister: the registry after unregister(address,
\* sink); an address left without sinks is deleted
Dispatcher_unregister(address, sink) ==
  IF address \notin DOMAIN sinks THEN sinks
  ELSE IF SetDelete(Handlers(address), sink) = <<>> THEN WithoutKey(sinks, address)
  ELSE WithKey(sinks, address, SetDelete(Handlers(address), sink))

\* Dispatch.ts Dispatcher.contains
Dispatcher_contains(address) == address \in DOMAIN sinks

\* An iterator that passes over one member at every step.
IterNext_skipping(k) == k + 2

\* Dispatch.ts dispatchMsg, line 63: the for...of iterator moves to the next member
IterNext(k) == k + 1

\* Dispatch.ts Dispatcher.register, lines 32-36
DispRegister ==
  /\ disp.pc = "handling" => disp.changes < MaxChanges
  /\ \E a \in DispAddresses, s \in DispSinks :
       sinks' = Dispatcher_register(a, s)
  /\ disp' = IF disp.pc = "handling" THEN [disp EXCEPT !.changes = @ + 1] ELSE disp
  /\ UNCHANGED <<pc, call, stack, ret, calls, rets, apiSeen, clients, sync, env,
                 endpoints, tried, accepted, handled, result>>
  /\ UNCHANGED <<regVars, post, tx, faucet, conn, batch, hist, fn>>

\* Dispatch.ts Dispatcher.unregister, lines 38-49
DispUnregister ==
  /\ disp.pc = "handling" => disp.changes < MaxChanges
  /\ \E a \in DispAddresses, s \in DispSinks :
       LET left == SetDelete(Handlers(a), s)
           i == IndexIn(Handlers(a), s)
           iterated == disp.pc = "handling" /\ disp.attached /\ a = disp.dest
           d == IF disp.pc = "handling" THEN [disp EXCEPT !.changes = @ + 1] ELSE disp
       IN /\ sinks' = Dispatcher_unregister(a, s)
          /\ disp' = IF iterated
                     THEN [d EXCEPT !.k = IF i # 0 /\ i <= disp.k THEN @ - 1 ELSE @,
                                    !.attached = (left # <<>>)]
                     ELSE d
  /\ UNCHANGED <<pc, call, stack, ret, calls, rets, apiSeen, clients, sync, env,
                 endpoints, tried, accepted, handled, result>>
  /\ UNCHANGED <<regVars, post, tx, faucet, conn, batch, hist, fn>>

\* Dispatch.ts dispatchMsg, lines 62-64: the handlers are read and the first
\* handleMessage is called, at whose await dispatchMsg is suspended
DispatchMsg ==
  /\ disp.pc = "idle"
  /\ \E destination \in DispAddresses :
       LET handlers == Handlers(destination)
       IN disp' = IF handlers = <<>>
                  THEN [NoDisp EXCEPT !.pc = "done", !.dest = destination,
                                      !.result = "resolved"]
                  ELSE [NoDisp EXCEPT !.pc = "handling", !.dest = destination,
                                      !.attached = TRUE, !.k = 1,
                                      !.cur = handlers[1], !.start = handlers,
                                      !.invoked = <<handlers[1]>>, !.open = 1]
  /\ UNCHANGED <<sendVars, regVars, post, tx, faucet, conn, batch, hist, fn>>

\* Dispatch.ts dispatchMsg, lines 63-65: the awaited handleMessage settles;
\* a rejection ends dispatchMsg, otherwise the loop goes to the next member
\* of the Set it iterates or ends
HandlerSettles ==
  /\ disp.pc = "handling"
  /\ \E ok \in BOOLEAN :
       LET d == [disp EXCEPT !.open = @ - 1]
           set == IF disp.attached THEN Handlers(disp.dest) ELSE <<>>
           n == IterNext(disp.k)
       IN disp' = IF ~ok
                  THEN [d EXCEPT !.pc = "done", !.failed = TRUE, !.result = "rejected"]
                  ELSE IF n <= Len(set)
                  THEN [d EXCEPT !.k = n, !.cur = set[n],
                                 !.invoked = Append(@, set[n]), !.open = @ + 1]
                  ELSE [d EXCEPT !.pc = "done", !.result = "resolved"]
  /\ UNCHANGED <<sendVars, regVars, post, tx, faucet, conn, batch, hist, fn>>

\* The caller is done with the answer; the registry stays as it is.
DispReset ==
  /\ disp.pc = "done"
  /\ disp' = NoDisp
  /\ UNCHANGED <<sendVars, regVars, post, tx, faucet, conn, batch, hist, fn>>

InitDisp ==
  /\ CoreQuiet
  /\ AuxQuiet

NextDisp ==
  \/ DispRegister
  \/ DispUnregister
  \/ DispatchMsg
  \/ HandlerSettles
  \/ DispReset

SpecDisp == InitDisp /\ [][NextDisp]_vars

\* ----------------------------------------------- BatchLedgerRegistrationPolicy
BatchAgents == {<<"agent1qA">>, <<"agent1qB">>}

\* record.<name> of a JavaScript object: undefined for a property it lacks
Property(record, name) ==
  IF name \in DOMAIN record THEN record[name] ELSE Absent

\* Registration.ts BatchLedgerRegistrationPolicy.addAgent, lines 355-361:
\* the record pushed for an agent
BatchRecord(agent) ==
  [agentAddress |-> agent, protocols |-> <<"P1">>, endpoints |-> <<"E1">>,
   contractAddress |-> <<"contract">>, senderAddress |-> <<"wallet">>]

\* Registration.ts BatchLedgerRegistrationPolicy.register, lines 390-401:
\* what the signing loop makes of a record
SignedRecord(record) ==
  [x \in (DOMAIN record) \cup {"signature"} |->
     IF x = "signature" THEN <<"sig">> \o record.agentAddress ELSE record[x]]

\* Network.ts AlmanacContract.registerBatch, lines 479-485
RecordComplete(record) ==
  /\ Property(record, "timestamp") # Absent
  /\ Property(record, "signature") # Absent

\* Network.ts AlmanacContract.registerBatch, lines 478-503: what the map over
\* the records throws, at the first record it throws for
BatchMapError(records) ==
  IF \A i \in 1..Len(records) : RecordComplete(records[i])
  THEN "none"
  ELSE LET i == CHOOSE j \in 1..Len(records) :
                  /\ ~RecordComplete(records[j])
                  /\ \A h \in 1..(j - 1) : RecordComplete(records[h])
       IN IF Property(records[i], "timestamp") = Absent
          THEN "Agent record is missing timestamp"
          ELSE "Agent record is not signed"

\* Registration.ts BatchLedgerRegistrationPolicy.addAgent, lines 354-364
BatchAddAgent ==
  /\ batch.pc = "idle"
  /\ Len(batch.records) < MaxBatch
  /\ \E agent \in BatchAgents :
       batch' = [batch EXCEPT !.records = Append(@, BatchRecord(agent)),
                              !.identities = @ \cup {agent}]
  /\ UNCHANGED <<sendVars, regVars, post, tx, faucet, conn, disp, hist, fn>>

\* Registration.ts BatchLedgerRegistrationPolicy.register, lines 370-401: the
\* test for an empty batch, the balance and the funding, the signing loop
BatchRegister ==
  /\ batch.pc = "idle"
  /\ \E balance \in 0..(REGISTRATION_FEE * MaxBatch), queried \in BOOLEAN,
        faucetOk \in BOOLEAN :
       LET n == Len(batch.records)
           b == [batch EXCEPT !.balance = balance,
                              !.funded = (balance >= REGISTRATION_FEE * n)]
       IN batch' =
            IF n = 0 THEN [batch EXCEPT !.pc = "done", !.result = "resolved"]
            ELSE IF ~queried
            THEN [batch EXCEPT !.pc = "done", !.external = TRUE,
                               !.result = "queryBankBalance failed"]
            ELSE IF balance < REGISTRATION_FEE * n /\ ~batch.testnet
            THEN [b EXCEPT !.pc = "done", !.result = "InsufficientFundsError"]
            ELSE IF balance < REGISTRATION_FEE * n /\ ~faucetOk
            THEN [b EXCEPT !.pc = "done", !.external = TRUE,
                           !.result = "addTestnetFunds failed"]
            ELSE IF \E i \in 1..n : batch.records[i].agentAddress \notin batch.identities
            THEN [b EXCEPT !.pc = "done", !.result = "Identity is not defined"]
            ELSE [b EXCEPT !.pc = "registerBatch",
                           !.records = [i \in 1..n |-> SignedRecord(batch.records[i])]]
  /\ UNCHANGED <<sendVars, regVars, post, tx, faucet, conn, disp, hist, fn>>

\* Registration.ts BatchLedgerRegistrationPolicy.register, lines 403-404, with
\* Network.ts AlmanacContract.registerBatch, lines 465-514
BatchSubmit ==
  /\ batch.pc = "registerBatch"
  /\ \E o \in {"ok", "Contract address not set", "No account found in wallet"},
        sent \in {"resolved", "broadcast failed", "Transaction query timeout"} :
       batch' =
         IF o # "ok"
         THEN [batch EXCEPT !.pc = "done", !.external = TRUE, !.result = o]
         ELSE IF BatchMapError(batch.records) # "none"
         THEN [batch EXCEPT !.pc = "done", !.result = BatchMapError(batch.records)]
         ELSE IF sent = "broadcast failed"
         THEN [batch EXCEPT !.pc = "done", !.external = TRUE, !.result = sent]
         ELSE [batch EXCEPT !.pc = "done", !.broadcasts = @ + 1,
                            !.messages = Len(batch.records),
                            !.external = (sent # "resolved"), !.result = sent]
  /\ UNCHANGED <<sendVars, regVars, post, tx, faucet, conn, disp, hist, fn>>

\* The caller is done with the answer; the policy keeps its records.
BatchReset ==
  /\ batch.pc = "done"
  /\ batch' = [NoBatch EXCEPT !.records = batch.records,
                              !.identities = batch.identities,
                              !.testnet = batch.testnet]
  /\ UNCHANGED <<sendVars, regVars, post, tx, faucet, conn, disp, hist, fn>>

\* Registration.ts BatchLedgerRegistrationPolicy constructor, lines 338-352: a
\* policy for the testnet or for the mainnet, with no records
InitBatch ==
  /\ CoreQuiet
  /\ PostQuiet /\ TxQuiet /\ FaucetQuiet /\ ConnQuiet /\ DispQuiet /\ HistQuiet
  /\ FnQuiet
  /\ \E testnet \in BOOLEAN : batch = [NoBatch EXCEPT !.testnet = testnet]

NextBatch ==
  \/ BatchAddAgent
  \/ BatchRegister
  \/ BatchSubmit
  \/ BatchReset

SpecBatch == InitBatch /\ [][NextBatch]_vars

\* ------------------------------------------------------------ EnvelopeHistory
(* hist.now is Math.floor(Date.now() / 1000). hist.envelopes is the array   *)
(* of the history, an entry being its timestamp. hist.op is the last thing  *)
(* that happened, hist.at the time of the last addEntry or                  *)
(* applyRetentionPolicy, hist.before the array before the last addEntry and *)
(* hist.added the entry it added.                                           *)

\* How far in the past the timestamp of a new entry lies: the constructor
\* takes the current time, or any timestamp the caller passes
EntryAges == {0, RetentionSeconds - 1, RetentionSeconds, RetentionSeconds + 1}

\* How far the clock moves between two operations
ClockSteps == {1, RetentionSeconds}

\* A cutoff one second further in the past.
cutoffTime_late(now) == now - RetentionSeconds - 1

\* Envelope.ts applyRetentionPolicy, line 250
cutoffTime(now) == now - RetentionSeconds

\* A filter that drops the entry at the cutoff itself.
RetentionKeeps_strict(e, cutoff) == e.timestamp > cutoff

\* Envelope.ts applyRetentionPolicy, line 251: e.timestamp >= cutoffTime
RetentionKeeps(e, cutoff) == e.timestamp >= cutoff

\* Envelope.ts EnvelopeHistory.applyRetentionPolicy, lines 249-252
applyRetentionPolicy(envelopes, now) ==
  SelectSeq(envelopes, LAMBDA e : RetentionKeeps(e, cutoffTime(now)))

\* Envelope.ts EnvelopeHistory.addEntry, lines 241-244, the entry made by the
\* EnvelopeHistoryEntry constructor, lines 183-210
HistAddEntry ==
  /\ Len(hist.envelopes) <= MaxHistory
  /\ \E age \in EntryAges :
       LET entry == [timestamp |-> hist.now - age]
       IN hist' = [hist EXCEPT
                     !.envelopes = applyRetentionPolicy(Append(@, entry), hist.now),
                     !.op = "addEntry", !.at = hist.now,
                     !.before = hist.envelopes, !.added = <<entry>>]
  /\ UNCHANGED <<sendVars, regVars, post, tx, faucet, conn, disp, batch, fn>>

\* Envelope.ts EnvelopeHistory.applyRetentionPolicy, lines 249-252, called
\* from outside
HistApplyRetention ==
  /\ hist' = [hist EXCEPT
                !.envelopes = applyRetentionPolicy(@, hist.now),
                !.op = "applyRetentionPolicy", !.at = hist.now,
                !.before = <<>>, !.added = <<>>]
  /\ UNCHANGED <<sendVars, regVars, post, tx, faucet, conn, disp, batch, fn>>

\* Time passes.
HistTick ==
  /\ hist.ticks < MaxTicks
  /\ \E step \in ClockSteps :
       hist' = [hist EXCEPT !.now = @ + step, !.ticks = @ + 1, !.op = "tick"]
  /\ UNCHANGED <<sendVars, regVars, post, tx, faucet, conn, disp, batch, fn>>

InitHist ==
  /\ CoreQuiet
  /\ AuxQuiet

NextHist ==
  \/ HistAddEntry
  \/ HistApplyRetention
  \/ HistTick

SpecHist == InitHist /\ [][NextHist]_vars

\* ------------------------------------------------ weightedRandomSample alone
(* fn holds one call weightedRandomSample(items, weights, k): the list, if  *)
(* weights are given (one per item, as every caller passes them), k, and    *)
(* the list returned.                                                       *)
SampleItems == UNION {[1..n -> {"a", "b"}] : n \in 0..MaxItems}

\* The orders n positions can be put in
Orders(n) ==
  {p \in [1..n -> 1..n] : \A i, j \in 1..n : p[i] = p[j] => i = j}

\* The keys of a draw: Math.pow(Math.random(), 1 / w) is a number, or NaN (0
\* here) for a weight that is undefined
SampleKeys(n) == [1..n -> 0..MaxKey]

\* Array.prototype.slice(0, k) for k >= 0
slice(list, k) == SubSeq(list, 1, Min(k, Len(list)))

\* Resolver.ts weightedRandomSample, line 46: [...items].sort(() =>
\* Math.random() - 0.5) puts the copy in an order the draws decide
shuffled(items, perm) == [i \in 1..Len(items) |-> items[perm[i]]]

\* Resolver.ts weightedRandomSample, lines 41-55. With a NaN key the
\* comparator b.value - a.value is not an ordering and the sort leaves the
\* indices in an order the implementation decides.
Sample(items, weighted, k, keys, perm) ==
  IF ~weighted THEN slice(shuffled(items, perm), k)
  ELSE IF \E i \in 1..Len(items) : keys[i] = 0
  THEN slice(shuffled(items, perm), k)
  ELSE weightedRandomSample(items, keys, k)

InitSample ==
  /\ OthersQuiet
  /\ \E items \in SampleItems, weighted \in BOOLEAN, k \in 0..(MaxItems + 1) :
       fn = [op |-> "call", items |-> items, weighted |-> weighted, k |-> k,
             out |-> <<>>]

\* Resolver.ts weightedRandomSample, lines 36-55
SampleCall ==
  /\ fn.op = "call"
  /\ \E keys \in SampleKeys(Len(fn.items)), perm \in Orders(Len(fn.items)) :
       fn' = [fn EXCEPT !.op = "returned",
                        !.out = Sample(fn.items, fn.weighted, fn.k, keys, perm)]
  /\ UNCHANGED <<sendVars, regVars, post, tx, faucet, conn, disp, batch, hist>>

NextSample == SampleCall

SpecSample == InitSample /\ [][NextSample]_vars

\* ------------------------------------------------------ parseIdentifier alone
(* fn holds one call parseIdentifier(identifier) and the triple it returns. *)
(* An identifier is made of up to MaxPieces pieces: the separators "://"    *)
(* and "/", and words, among them a bech32 user address ("user1U"), an      *)
(* agent address of 65 characters ("agent1qA") and a word that only starts  *)
(* with "user" ("username").                                                *)
ParsePieces ==
  {<<":", "/", "/">>, <<"/">>, <<"agent">>, <<"bob">>, <<"agent1qA">>,
   <<"user1U">>, <<"username">>}

RECURSIVE Concat(_)
Concat(pieces) ==
  IF pieces = <<>> THEN <<>> ELSE Head(pieces) \o Concat(Tail(pieces))

Identifiers ==
  {Concat(ps) : ps \in UNION {[1..n -> ParsePieces] : n \in 0..MaxPieces}}

InitParse ==
  /\ OthersQuiet
  /\ \E identifier \in Identifiers :
       fn = [op |-> "call", identifier |-> identifier, out |-> <<>>]

\* Resolver.ts parseIdentifier, lines 86-106
ParseCall ==
  /\ fn.op = "call"
  /\ fn' = [fn EXCEPT !.op = "returned", !.out = parseIdentifier(fn.identifier)]
  /\ UNCHANGED <<sendVars, regVars, post, tx, faucet, conn, disp, batch, hist>>

NextParse == ParseCall

SpecParse == InitParse /\ [][NextParse]_vars

\* ----------------------------------------------- RulesBasedResolver alone
(* fn holds one call new RulesBasedResolver(rules, maxEndpoints)            *)
(* .resolve(destination): the rules object (its own properties), the        *)
(* maxEndpoints argument (0 for a missing one) and the pair returned.       *)
RuleKeys == {<<"agent1qA">>, <<"constructor">>}
RuleDestinations == RuleKeys \cup {<<"bob">>}
OwnRules == {r \in Rules : r.kind # "none"}
RuleObjects == UNION {[ks -> OwnRules] : ks \in SUBSET RuleKeys}

InitRules ==
  /\ OthersQuiet
  /\ \E rules \in RuleObjects, destination \in RuleDestinations,
        maxEndpoints \in 0..(MaxEndpointList + 1) :
       fn = [op |-> "call", rules |-> rules, destination |-> destination,
             maxEndpoints |-> maxEndpoints, out |-> NoRet]

\* Resolver.ts RulesBasedResolver constructor and resolve, lines 309-326
RulesCall ==
  /\ fn.op = "call"
  /\ fn' = [fn EXCEPT
              !.op = "returned",
              !.out = RulesBasedResolver_resolve(fn.destination,
                                                 RuleLookup(fn.rules, fn.destination),
                                                 EffectiveMax(fn.maxEndpoints))]
  /\ UNCHANGED <<sendVars, regVars, post, tx, faucet, conn, disp, batch, hist>>

NextRules == RulesCall

SpecRules == InitRules /\ [][NextRules]_vars

\* ------------------------------------------- Identity.sign and verifyDigest
(* One call of Identity.sign, Identity.signDigest or Identity.verifyDigest. *)
(* fn holds the call: f the function, key the signing identity, address,    *)
(* digest and signature the arguments of verifyDigest, op where the call    *)
(* stands ("call", "signed", "returned", "threw"), out what it returned.    *)
Digests == {<<"d1">>, <<"d2">>}

\* Addresses a caller can pass: two agents, an agent address whose bytes are
\* no public key, a user address, a string that is no bech32
VerifyAddresses ==
  {<<"agent1qA">>, <<"agent1qB">>, <<"agent1qX">>, <<"user1U">>, <<"bob">>}

\* Signature strings a caller can pass: none, an identity's signature in
\* bech32 or base64, an agent address, a short bech32 'sig' string
VerifySignatures ==
  {NoSignature}
  \cup {Bech32String("sig", EcSign(k, d)) : k \in Keys, d \in Digests}
  \cup {signB64(k, d) : k \in Keys, d \in Digests}
  \cup {Bech32String("agent", [key |-> "k1", digest |-> <<>>, bytes |-> 33])}
  \cup {Bech32String("sig", [key |-> "", digest |-> <<>>, bytes |-> 8])}

SignCalls ==
  {[op |-> "call", f |-> f, key |-> k, address |-> a, digest |-> d,
    signature |-> NoSignature, out |-> "none"] :
     f \in {"sign", "signDigest"}, k \in Keys, a \in AgentAddresses, d \in Digests}

VerifyCalls ==
  {[op |-> "call", f |-> "verifyDigest", key |-> "", address |-> a, digest |-> d,
    signature |-> s, out |-> "none"] :
     a \in VerifyAddresses, d \in Digests, s \in VerifySignatures}

InitCrypto ==
  /\ OthersQuiet
  /\ fn \in SignCalls \cup VerifyCalls

\* crypto.ts Identity.sign, Identity.signDigest
IdentitySign ==
  /\ fn.op = "call"
  /\ fn.f \in {"sign", "signDigest"}
  /\ LET signature == signDigest(fn.key, fn.digest)
     IN fn' = IF signature = ThrownString
              THEN [fn EXCEPT !.op = "threw"]
              ELSE [fn EXCEPT !.op = "signed", !.signature = signature]
  /\ UNCHANGED <<sendVars, regVars, post, tx, faucet, conn, disp, batch, hist>>

\* crypto.ts Identity.verifyDigest, on a caller's strings or on the signature
\* sign has just returned
IdentityVerifyDigest ==
  /\ \/ fn.op = "call" /\ fn.f = "verifyDigest"
     \/ fn.op = "signed"
  /\ LET verified == catch(verifyDigest_try(fn.address, fn.digest, fn.signature))
     IN fn' = IF verified = "threw"
              THEN [fn EXCEPT !.op = "threw", !.out = "none"]
              ELSE [fn EXCEPT !.op = "returned", !.out = verified]
  /\ UNCHANGED <<sendVars, regVars, post, tx, faucet, conn, disp, batch, hist>>

NextCrypto ==
  \/ IdentitySign
  \/ IdentityVerifyDigest

SpecCrypto == InitCrypto /\ [][NextCrypto]_vars

\* --------------------------------------------------- ExternalContext.send
(* One call of ExternalContext.send. fn holds the context and the call:     *)
(* replies the context's map from a received schema digest to the digests   *)
(* allowed in reply (NoReplies: constructed without one), received the      *)
(* schema digest of the message received ("none": missing), message the     *)
(* schema digest of the outgoing message, out what send gave.               *)
ReplyDigests == {"model:m1", "model:m2"}
ERROR_MESSAGE_DIGEST == "model:error"

\* this._replies.get(received.schema_digest): undefined, or a Map
AllowedReplies ==
  {[listed |-> FALSE, allowed |-> {}]}
  \cup {[listed |-> TRUE, allowed |-> a] : a \in SUBSET ReplyDigests}
NoReplies == [d \in {} |-> [listed |-> FALSE, allowed |-> {}]]
ReplyMaps == {NoReplies} \cup [ReplyDigests -> AllowedReplies]

\* Logger.ts ExternalContext._isValidReply: "true", "false" or "threw"
_isValidReply(replies, received, messageSchemaDigest) ==
  IF messageSchemaDigest = ERROR_MESSAGE_DIGEST THEN "true"
  ELSE IF received = "none" THEN "threw"
  ELSE IF replies = NoReplies THEN "true"
  ELSE IF replies[received].listed
       THEN (IF messageSchemaDigest \in replies[received].allowed
             THEN "true" ELSE "false")
       ELSE "false"

\* What sendRaw can give send: a delivery status, or an error
SendRawOutcomes == {"SENT", "DELIVERED", "FAILED", "threw"}

InitReply ==
  /\ OthersQuiet
  /\ \E replies \in ReplyMaps, received \in ReplyDigests \cup {"none"},
        message \in ReplyDigests \cup {ERROR_MESSAGE_DIGEST} :
       fn = [op |-> "call", replies |-> replies, received |-> received,
             message |-> message, out |-> "none", sendRaw |-> FALSE]

\* Logger.ts ExternalContext.send
ExternalContext_send ==
  /\ fn.op = "call"
  /\ LET valid == _isValidReply(fn.replies, fn.received, fn.message)
     IN \/ /\ valid = "threw"
           /\ fn' = [fn EXCEPT !.op = "threw", !.out = "No message received"]
        \/ /\ valid = "false"
           /\ fn' = [fn EXCEPT !.op = "returned", !.out = "FAILED: Invalid reply"]
        \/ /\ valid = "true"
           /\ \E raw \in SendRawOutcomes :
                fn' = IF raw = "threw"
                      THEN [fn EXCEPT !.op = "threw", !.out = "sendRaw", !.sendRaw = TRUE]
                      ELSE [fn EXCEPT !.op = "returned", !.out = raw, !.sendRaw = TRUE]
  /\ UNCHANGED <<sendVars, regVars, post, tx, faucet, conn, disp, batch, hist>>

NextReply == ExternalContext_send

SpecReply == InitReply /\ [][NextReply]_vars

\* ------------------------------------------------------ Envelope._digest
(* One call of Envelope._digest. fn holds the envelope and the bytes the    *)
(* hasher was fed.                                                          *)
DigestPayloads == {Absent, EmptyString, Base64(<<"hi">>)}
DigestNumbers == {0, 1}

DigestEnvelopes ==
  {[NewEnvelope(sender, target, <<"s1">>, <<"model:m">>, hasExpires, expires)
      EXCEPT !.payload = payload, !.hasNonce = hasNonce, !.nonce = nonce] :
     sender \in AgentAddresses, target \in AgentAddresses,
     payload \in DigestPayloads,
     hasExpires \in BOOLEAN, expires \in DigestNumbers,
     hasNonce \in BOOLEAN, nonce \in DigestNumbers}

\* A field that is undefined holds no number
WellFormed(e) ==
  /\ (~e.hasExpires => e.expires = 0)
  /\ (~e.hasNonce => e.nonce = 0)

InitDigest ==
  /\ OthersQuiet
  /\ \E e \in DigestEnvelopes :
       /\ WellFormed(e)
       /\ fn = [op |-> "call", env |-> e, fed |-> <<>>]

\* Envelope.ts Envelope._digest
DigestCall ==
  /\ fn.op = "call"
  /\ fn' = [fn EXCEPT !.op = "returned", !.fed = _digest(fn.env)]
  /\ UNCHANGED <<sendVars, regVars, post, tx, faucet, conn, disp, batch, hist>>

NextDigest == DigestCall

SpecDigest == InitDigest /\ [][NextDigest]_vars

\* ------------------------------------- attestation digest (_buildDigest)
(* JSON values: t is "str", "num", "null", "undefined", "arr" or "obj";     *)
(* kids holds an object's properties in insertion order, or an array's      *)
(* items, as <<key, value>> pairs.                                          *)
JStr(s) == [t |-> "str", s |-> s, kids |-> <<>>]
JNum(s) == [t |-> "num", s |-> s, kids |-> <<>>]
JNull == [t |-> "null", s |-> "", kids |-> <<>>]
JUndefined == [t |-> "undefined", s |-> "", kids |-> <<>>]
JObj(pairs) == [t |-> "obj", s |-> "", kids |-> pairs]
JArr(items) ==
  [t |-> "arr", s |-> "",
   kids |-> [i \in 1..Len(items) |-> <<ToString(i - 1), items[i]>>]]

\* Every key of the modelled objects, in the order Array.prototype.sort
\* gives strings (by UTF-16 code unit)
KeyOrder ==
  <<"", "0", "1", "agent_identifier", "endpoints", "geo", "metadata", "name",
    "protocols", "signature", "timestamp", "url", "weight">>

SeqRange(seq) == {seq[i] : i \in 1..Len(seq)}

\* allKeys.add(key): a Set keeps the first insertion
AddKey(keys, key) == IF key \in SeqRange(keys) THEN keys ELSE Append(keys, key)

\* JSON.stringify(obj, (key, value) => (allKeys.add(key), value)): the
\* replacer sees every property and every array index, parents first
RECURSIVE CollectKids(_, _, _)
CollectKids(kids, i, keys) ==
  IF i > Len(kids) THEN keys
  ELSE CollectKids(kids, i + 1,
                   CollectKids(kids[i][2].kids, 1, AddKey(keys, kids[i][1])))

allKeys(obj) == CollectKids(obj.kids, 1, AddKey(<<>>, ""))

\* Array.from(allKeys).sort()
sort(keys) == SelectSeq(KeyOrder, LAMBDA k : k \in SeqRange(keys))

\* JSON.stringify(value, list): an object gives its properties named in
\* list, in list's order, leaving out undefined ones; an array gives all
\* its items in their order
RECURSIVE Stringify(_, _)
RECURSIVE Members(_, _, _, _)
RECURSIVE Elements(_, _, _)
Stringify(value, list) ==
  CASE value.t = "str" -> <<"'", value.s, "'">>
    [] value.t = "num" -> <<value.s>>
    [] value.t = "arr" -> <<"[">> \o Elements(value.kids, list, 1) \o <<"]">>
    [] value.t = "obj" -> <<"{">> \o Members(value.kids, list, 1, <<>>) \o <<"}">>
    [] OTHER -> <<"null">>

Members(kids, list, i, sep) ==
  IF i > Len(list) THEN <<>>
  ELSE LET own == {j \in 1..Len(kids) :
                     kids[j][1] = list[i] /\ kids[j][2].t # "undefined"}
       IN IF own = {} THEN Members(kids, list, i + 1, sep)
          ELSE sep \o <<"'", list[i], "'", ":">>
               \o Stringify(kids[CHOOSE j \in own : TRUE][2], list)
               \o Members(kids, list, i + 1, <<",">>)

Elements(kids, list, i) ==
  IF i > Len(kids) THEN <<>>
  ELSE (IF i > 1 THEN <<",">> ELSE <<>>)
       \o Stringify(kids[i][2], list)
       \o Elements(kids, list, i + 1)

JSONstringifyOrder_unsorted(obj) == Stringify(obj, allKeys(obj))

\* Registration.ts JSONstringifyOrder
JSONstringifyOrder(obj) == Stringify(obj, sort(allKeys(obj)))

\* {...this, signature: undefined}: signature keeps its place where the
\* model has one, else it comes last
WithSignatureUndefined(obj) ==
  IF \E j \in 1..Len(obj.kids) : obj.kids[j][1] = "signature"
  THEN JObj([j \in 1..Len(obj.kids) |->
               IF obj.kids[j][1] = "signature"
               THEN <<"signature", JUndefined>> ELSE obj.kids[j]])
  ELSE JObj(Append(obj.kids, <<"signature", JUndefined>>))

\* Registration.ts BaseVerifiableModel._buildDigest: the bytes hashed
_buildDigest(model) == JSONstringifyOrder(WithSignatureUndefined(model))

(* The field values of an attestation: protocols and endpoints in one of    *)
(* two orders, metadata null or an object of two entries.                   *)
AttestationValues ==
  [protocols : {<<"p1", "p2">>, <<"p2", "p1">>},
   endpoints : {<<"u1", "u2">>, <<"u2", "u1">>},
   metadata : BOOLEAN]

(* The key orders of its object literals: the order of the model's own      *)
(* properties, of each endpoint's and of the metadata's.                    *)
TopOrders ==
  {<<"agent_identifier", "protocols", "endpoints", "metadata", "timestamp", "signature">>,
   <<"signature", "timestamp", "metadata", "endpoints", "protocols", "agent_identifier">>,
   <<"protocols", "agent_identifier", "timestamp", "metadata", "endpoints">>}
LiteralOrders ==
  [top : TopOrders,
   endpoint : {<<"url", "weight">>, <<"weight", "url">>},
   metadata : {<<"geo", "name">>, <<"name", "geo">>}]

\* The object literal of an endpoint, its keys in the given order
Endpoint(url, order) ==
  JObj([i \in 1..2 |-> IF order[i] = "url" THEN <<"url", JStr(url)>>
                       ELSE <<"weight", JNum("1")>>])

Field(key, v, o) ==
  CASE key = "agent_identifier" -> JStr("agent1qA")
    [] key = "protocols" -> JArr([i \in 1..Len(v.protocols) |-> JStr(v.protocols[i])])
    [] key = "endpoints" ->
         JArr([i \in 1..Len(v.endpoints) |-> Endpoint(v.endpoints[i], o.endpoint)])
    [] key = "metadata" ->
         IF v.metadata
         THEN JObj([i \in 1..2 |-> IF o.metadata[i] = "geo" THEN <<"geo", JStr("x")>>
                                   ELSE <<"name", JStr("y")>>])
         ELSE JNull
    [] key = "timestamp" -> JNum("1")
    [] OTHER -> JStr("sig1s")

\* new AgentRegistrationAttestation(...) holding values v, built in order o
Attestation(v, o) ==
  JObj([i \in 1..Len(o.top) |-> <<o.top[i], Field(o.top[i], v, o)>>])

InitAttest ==
  /\ OthersQuiet
  /\ \E va \in AttestationValues, vb \in AttestationValues,
        oa \in LiteralOrders, ob \in LiteralOrders :
       fn = [op |-> "call", va |-> va, vb |-> vb,
             a |-> Attestation(va, oa), b |-> Attestation(vb, ob),
             da |-> <<>>, db |-> <<>>]

\* Registration.ts _buildDigest on both attestations
BuildDigests ==
  /\ fn.op = "call"
  /\ fn' = [fn EXCEPT !.op = "returned",
                      !.da = _buildDigest(fn.a), !.db = _buildDigest(fn.b)]
  /\ UNCHANGED <<sendVars, regVars, post, tx, faucet, conn, disp, batch, hist>>

NextAttest == BuildDigests

SpecAttest == InitAttest /\ [][NextAttest]_vars

\* ----------------------------------------------------------- queryContract
(* One call of queryContract, of AlmanacContract or NameServiceContract.    *)
(* fn holds the contract, the query message, what the client's              *)
(* queryContractSmart gave (a value, or "rejected": it threw), and what     *)
(* queryContract gave.                                                      *)
QueryMessages == {"query_record", "query_contract_state", "query_sequence"}

\* JavaScript values by kind, v a rendering of the value
QueryResponses ==
  {[kind |-> "object", v |-> "{}"], [kind |-> "object", v |-> "{record: []}"],
   [kind |-> "array", v |-> "[]"], [kind |-> "array", v |-> "[1]"],
   [kind |-> "string", v |-> ""], [kind |-> "string", v |-> "ok"],
   [kind |-> "number", v |-> "0"], [kind |-> "number", v |-> "1"],
   [kind |-> "boolean", v |-> "false"], [kind |-> "boolean", v |-> "true"],
   [kind |-> "null", v |-> "null"], [kind |-> "undefined", v |-> "undefined"],
   [kind |-> "rejected", v |-> "network error"],
   [kind |-> "rejected", v |-> "contract not found"]}

\* The typeof operator: null and arrays are "object"
typeof(value) ==
  IF value.kind \in {"object", "array", "null"} THEN "object" ELSE value.kind

InitQuery ==
  /\ OthersQuiet
  /\ \E contract \in {"AlmanacContract", "NameServiceContract"},
        msg \in QueryMessages, response \in QueryResponses :
       fn = [op |-> "call", contract |-> contract, msg |-> msg,
             response |-> response, out |-> "none", logged |-> FALSE]

\* part_001 AlmanacContract.queryContract / NameServiceContract.queryContract
queryContract ==
  /\ fn.op = "call"
  /\ fn' = IF fn.response.kind = "rejected"
           THEN [fn EXCEPT !.op = "threw", !.out = fn.response.v, !.logged = TRUE]
           ELSE IF typeof(fn.response) # "object"
           THEN [fn EXCEPT !.op = "threw", !.out = "Invalid response format",
                           !.logged = TRUE]
           ELSE [fn EXCEPT !.op = "returned", !.out = fn.response.v]
  /\ UNCHANGED <<sendVars, regVars, post, tx, faucet, conn, disp, batch, hist>>

NextQuery == queryContract

SpecQuery == InitQuery /\ [][NextQuery]_vars

\* ----------------------------------------- encodePayload and decodePayload
(* encodePayload(s) on a new envelope, then decodePayload(). fn holds s,    *)
(* the envelope and what decodePayload returned.                            *)
MaxChars == 3
PayloadAlphabet == {"a", "e'", HighSurrogate, LowSurrogate}
PayloadStrings == UNION {[1..n -> PayloadAlphabet] : n \in 0..MaxChars}

InitPayload ==
  /\ OthersQuiet
  /\ \E s \in PayloadStrings :
       fn = [op |-> "call", s |-> s,
             env |-> NewEnvelope(<<"agent1qA">>, <<"agent1qB">>, <<"s1">>,
                                 <<"model:m">>, FALSE, 0),
             out |-> <<>>]

\* Envelope.ts Envelope.encodePayload
EncodePayload ==
  /\ fn.op = "call"
  /\ fn' = [fn EXCEPT !.op = "encoded", !.env = encodePayload(fn.env, fn.s)]
  /\ UNCHANGED <<sendVars, regVars, post, tx, faucet, conn, disp, batch, hist>>

\* Envelope.ts Envelope.decodePayload
DecodePayload ==
  /\ fn.op = "encoded"
  /\ fn' = [fn EXCEPT !.op = "returned", !.out = decodePayload(fn.env)]
  /\ UNCHANGED <<sendVars, regVars, post, tx, faucet, conn, disp, batch, hist>>

NextPayload ==
  \/ EncodePayload
  \/ DecodePayload

SpecPayload == InitPayload /\ [][NextPayload]_vars

\* ------------------------------------------------- getCanonicalSignature
(* One call of getCanonicalSignature on a signature (r, s) of a group of    *)
(* odd order CurveOrder, a small stand-in for the order n of secp256k1.     *)
MaxHalfOrder == 11
CurveOrder == 2 * MaxHalfOrder + 1

getCanonicalSignature_asSigned(signature) == [r |-> signature.r, s |-> signature.s]

\* crypto.ts Identity.getCanonicalSignature: halfN = n.shrn(1); s above it
\* becomes n - s
getCanonicalSignature(signature) ==
  LET secp256k1halfN == CurveOrder \div 2
  IN [r |-> signature.r,
      s |-> IF signature.s > secp256k1halfN
            THEN CurveOrder - signature.s
            ELSE signature.s]

InitCanonical ==
  /\ OthersQuiet
  /\ \E r \in 1..(CurveOrder - 1), s \in 1..(CurveOrder - 1) :
       fn = [op |-> "call", signature |-> [r |-> r, s |-> s],
             out |-> [r |-> 0, s |-> 0]]

\* crypto.ts Identity.getCanonicalSignature
CanonicalCall ==
  /\ fn.op = "call"
  /\ fn' = [fn EXCEPT !.op = "returned", !.out = getCanonicalSignature(fn.signature)]
  /\ UNCHANGED <<sendVars, regVars, post, tx, faucet, conn, disp, batch, hist>>

NextCanonical == CanonicalCall

SpecCanonical == InitCanonical /\ [][NextCanonical]_vars

\* ------------------------------------------------------------ KeyValueStore
(* One KeyValueStore and its backing file. fn holds data (this._data: for   *)
(* each key its value, NotOwn where the object has no such property), file  *)
(* (whether the file exists, and the object its JSON text parses to) and    *)
(* last, the latest call: its name, key, value, what it returned and        *)
(* whether the file existed before it.                                      *)
StoreKeys == {"key", "other"}
NotOwn == "<no property>"

\* Values a caller stores, named by their JavaScript source text
StoreValues == {"'value'", "'new_value'", "0", "null", "undefined"}

EmptyData == [k \in StoreKeys |-> NotOwn]
NoStoreFile == [exists |-> FALSE, content |-> EmptyData]
NoStoreCall ==
  [call |-> "none", key |-> "", value |-> "", ret |-> "", fileBefore |-> FALSE]

\* x || null: undefined, null, 0, '' and false are falsy
OrNull(x) == IF x \in {NotOwn, "undefined", "null", "0", "''", "false"} THEN "null" ELSE x

\* Storage.ts KeyValueStore.get: this._data[key] || null
KeyValueStore_get(data, key) == OrNull(data[key])

\* Storage.ts KeyValueStore.has: key in this._data
KeyValueStore_has(data, key) == data[key] # NotOwn

\* Storage.ts KeyValueStore._save: JSON.stringify leaves out a property
\* whose value is undefined; the file is written whole
_save(data) ==
  [exists |-> TRUE,
   content |-> [k \in StoreKeys |-> IF data[k] = "undefined" THEN NotOwn ELSE data[k]]]

\* Storage.ts KeyValueStore constructor: _load when the file exists
_load(file) == IF file.exists THEN file.content ELSE EmptyData

StoreCalled(method, k, v, answer) ==
  [call |-> method, key |-> k, value |-> v, ret |-> answer,
   fileBefore |-> fn.file.exists]

InitStore ==
  /\ OthersQuiet
  /\ fn = [op |-> "store", data |-> EmptyData, file |-> NoStoreFile,
           last |-> NoStoreCall]

\* new KeyValueStore(name, cwd) on the same file
StoreConstruct ==
  /\ fn.op = "store"
  /\ fn' = [fn EXCEPT !.data = _load(fn.file),
                      !.last = StoreCalled("constructor", "", "", "")]
  /\ UNCHANGED <<sendVars, regVars, post, tx, faucet, conn, disp, batch, hist>>

\* Storage.ts KeyValueStore.set
StoreSet ==
  /\ fn.op = "store"
  /\ \E key \in StoreKeys, value \in StoreValues :
       LET data == [fn.data EXCEPT ![key] = value]
       IN fn' = [fn EXCEPT !.data = data, !.file = _save(data),
                           !.last = StoreCalled("set", key, value, "")]
  /\ UNCHANGED <<sendVars, regVars, post, tx, faucet, conn, disp, batch, hist>>

\* Storage.ts KeyValueStore.get
StoreGet ==
  /\ fn.op = "store"
  /\ \E key \in StoreKeys :
       fn' = [fn EXCEPT !.last = StoreCalled("get", key, "",
                                             KeyValueStore_get(fn.data, key))]
  /\ UNCHANGED <<sendVars, regVars, post, tx, faucet, conn, disp, batch, hist>>

\* Storage.ts KeyValueStore.remove
StoreRemove ==
  /\ fn.op = "store"
  /\ \E key \in StoreKeys :
       fn' = IF KeyValueStore_has(fn.data, key)
             THEN LET data == [fn.data EXCEPT ![key] = NotOwn]
                  IN [fn EXCEPT !.data = data, !.file = _save(data),
                                !.last = StoreCalled("remove", key, "", "")]
             ELSE [fn EXCEPT !.last = StoreCalled("remove", key, "", "")]
  /\ UNCHANGED <<sendVars, regVars, post, tx, faucet, conn, disp, batch, hist>>

\* Storage.ts KeyValueStore.clear
StoreClear ==
  /\ fn.op = "store"
  /\ fn' = [fn EXCEPT !.data = EmptyData, !.file = _save(EmptyData),
                      !.last = StoreCalled("clear", "", "", "")]
  /\ UNCHANGED <<sendVars, regVars, post, tx, faucet, conn, disp, batch, hist>>

NextStore ==
  \/ StoreConstruct
  \/ StoreSet
  \/ StoreGet
  \/ StoreRemove
  \/ StoreClear

SpecStore == InitStore /\ [][NextStore]_vars

\* ------------------------------------------- Dispatcher register/unregister
(* The registry under register and unregister calls alone. fn keeps the     *)
(* record of the calls: live, the (address, sink) pairs registered and not  *)
(* unregistered since, and last, the latest call with the registry and the  *)
(* pairs as they were before it.                                            *)
RegistrySinks == {"sinkA", "sinkB", "sinkC"}

InitRegistry ==
  /\ OthersQuiet
  /\ fn = [op |-> "registry", live |-> {},
           last |-> [call |-> "none", address |-> <<>>, sink |-> "",
                     before |-> <<>>, liveBefore |-> {}]]

\* Dispatch.ts Dispatcher.register
RegistryRegister ==
  /\ fn.op = "registry"
  /\ \E a \in DispAddresses, s \in RegistrySinks :
       /\ sinks' = Dispatcher_register(a, s)
       /\ fn' = [fn EXCEPT !.live = @ \cup {<<a, s>>},
                           !.last = [call |-> "register", address |-> a, sink |-> s,
                                     before |-> sinks, liveBefore |-> fn.live]]
  /\ UNCHANGED <<pc, call, stack, ret, calls, rets, apiSeen, clients, sync, env,
                 endpoints, tried, accepted, handled, result>>
  /\ UNCHANGED <<regVars, post, tx, faucet, conn, disp, batch, hist>>

\* Dispatch.ts Dispatcher.unregister
RegistryUnregister ==
  /\ fn.op = "registry"
  /\ \E a \in DispAddresses, s \in RegistrySinks :
       /\ sinks' = Dispatcher_unregister(a, s)
       /\ fn' = [fn EXCEPT !.live = @ \ {<<a, s>>},
                           !.last = [call |-> "unregister", address |-> a, sink |-> s,
                                     before |-> sinks, liveBefore |-> fn.live]]
  /\ UNCHANGED <<pc, call, stack, ret, calls, rets, apiSeen, clients, sync, env,
                 endpoints, tried, accepted, handled, result>>
  /\ UNCHANGED <<regVars, post, tx, faucet, conn, disp, batch, hist>>

NextRegistry ==
  \/ RegistryRegister
  \/ RegistryUnregister

SpecRegistry == InitRegistry /\ [][NextRegistry]_vars

\* ------------------------------------------------ InternalContext.sendRaw
\* Logger.ts isValidAddress (Context copy): return true
Context_isValidAddress(address) == TRUE

\* Logger.ts parseIdentifier (Context copy): [prefix, name, address]
Context_parseIdentifier(identifier) ==
  LET hasScheme == Includes(identifier, <<":", "/", "/">>)
      p1 == Split2(identifier, <<":", "/", "/">>)
      prefix == IF hasScheme THEN p1[1] ELSE <<>>
      rest1 == IF hasScheme THEN p1[2] ELSE identifier
      hasSlash == Includes(rest1, <<"/">>)
      p2 == Split2(rest1, <<"/">>)
      name0 == IF hasSlash THEN p2[1] ELSE <<>>
      rest2 == IF hasSlash THEN p2[2] ELSE rest1
  IN IF Context_isValidAddress(rest2)
     THEN <<prefix, name0, rest2>>
     ELSE <<prefix, rest2, <<>>>>

(* One call of InternalContext.sendRaw. The registry is what agents of the  *)
(* process have registered. fn holds the destination and what the call did: *)
(* local (dispatchMsg was called), outbound (the message was noted in       *)
(* _outboundMessages), resolverCalled, queued (an envelope went to the      *)
(* dispenser), and out, the detail of the status returned.                  *)
MaxDestPieces == 3
DestPieces ==
  {<<":", "/", "/">>, <<"/">>, <<"agent1qA">>, <<"agent1qB">>, <<"bob">>}
ContextDestinations ==
  {Concat(ps) : ps \in UNION {[1..n -> DestPieces] : n \in 0..MaxDestPieces}}

LocalDispatch_unchecked(parsedAddress) == parsedAddress # <<>>

\* Logger.ts sendRaw, lines 435-437: if (parsedAddress) and
\* dispatcher.contains(parsedAddress)
LocalDispatch(parsedAddress) ==
  parsedAddress # <<>> /\ Dispatcher_contains(parsedAddress)

\* What follows when there is no local dispatch: a pending query of the
\* address is awaited, or the resolver is called and, where it finds
\* endpoints, an envelope is signed and queued and the dispenser's answer
\* awaited
RemoteOutcomes(parsedAddress) ==
  (IF parsedAddress # <<>>
   THEN {[op |-> o, outbound |-> FALSE, resolverCalled |-> FALSE, queued |-> FALSE,
          out |-> d] :
           o \in {"returned"}, d \in {"DELIVERED: Sync message resolved"}}
        \cup {[op |-> "threw", outbound |-> FALSE, resolverCalled |-> FALSE,
               queued |-> FALSE, out |-> "query rejected"]}
   ELSE {})
  \cup {[op |-> "returned", outbound |-> parsedAddress # <<>>, resolverCalled |-> TRUE,
         queued |-> FALSE, out |-> "FAILED: Unable to resolve destination endpoint"],
        [op |-> "threw", outbound |-> parsedAddress # <<>>, resolverCalled |-> TRUE,
         queued |-> FALSE, out |-> "resolve or sign threw"]}
  \cup {[op |-> "returned", outbound |-> parsedAddress # <<>>, resolverCalled |-> TRUE,
         queued |-> TRUE, out |-> d] :
          d \in {"DELIVERED: Sync response received", "dispenser status",
                 "FAILED: Timeout waiting for response"}}

InitContext ==
  /\ Quiet
  /\ clients = {}
  /\ sinks \in SinkMaps
  /\ RegQuiet
  /\ chain = NoRecord
  /\ wallet = 0
  /\ PostQuiet /\ TxQuiet /\ FaucetQuiet /\ ConnQuiet /\ DispQuiet /\ BatchQuiet
  /\ HistQuiet
  /\ \E destination \in ContextDestinations :
       fn = [op |-> "call", destination |-> destination, local |-> FALSE,
             outbound |-> FALSE, resolverCalled |-> FALSE, queued |-> FALSE,
             out |-> "none"]

\* Logger.ts InternalContext.sendRaw up to its first await
ContextSendRaw ==
  /\ fn.op = "call"
  /\ LET parsedAddress == Context_parseIdentifier(fn.destination)[3]
     IN IF LocalDispatch(parsedAddress)
        THEN fn' = [fn EXCEPT !.op = "dispatching", !.local = TRUE]
        ELSE \E o \in RemoteOutcomes(parsedAddress) :
               fn' = [fn EXCEPT !.op = o.op, !.outbound = o.outbound,
                                !.resolverCalled = o.resolverCalled,
                                !.queued = o.queued, !.out = o.out]
  /\ UNCHANGED <<sendVars, regVars, post, tx, faucet, conn, disp, batch, hist>>

\* Logger.ts sendRaw, lines 438-451: dispatchMsg settles
ContextDispatched ==
  /\ fn.op = "dispatching"
  /\ \E handled_ok \in BOOLEAN :
       fn' = IF handled_ok
             THEN [fn EXCEPT !.op = "returned",
                             !.out = "DELIVERED: Message dispatched locally"]
             ELSE [fn EXCEPT !.op = "threw", !.out = "handler threw"]
  /\ UNCHANGED <<sendVars, regVars, post, tx, faucet, conn, disp, batch, hist>>

NextContext ==
  \/ ContextSendRaw
  \/ ContextDispatched

SpecContext == InitContext /\ [][NextContext]_vars

\* ------------------------------------------------------------ claims C1, C2
\* The API answered with a record that has not expired and lists an endpoint.
ApiUsable ==
  /\ apiSeen.status = "200"
  /\ apiSeen.json = "ok"
  /\ apiSeen.expiry = "future"
  /\ apiSeen.count > 0

\* The destinations a resolver class was called with, in call order.
CalledWith(resolver) ==
  LET at == {i \in 1..Len(calls) : calls[i][1] = resolver}
  IN {calls[i][2] : i \in at}

(* C1: when the API lookup of AlmanacApiResolver.resolve(d) gives no usable *)
(* record (fetch throws, a status other than 200, a body that does not      *)
(* parse, a missing or unparseable expiry, an expiry not later than now, no *)
(* endpoints), the wrapped AlmanacContractResolver.resolve is called with   *)
(* the same d, and what AlmanacApiResolver.resolve returns is exactly what  *)
(* that call returned; when the API gives a usable record the contract      *)
(* resolver is not called.                                                  *)
C1_ApiFallsBackToContract ==
  /\ (apiSeen.status # "none" /\ ~ApiUsable) =>
        /\ CalledWith("AlmanacContract") = CalledWith("AlmanacApi")
        /\ Cardinality(CalledWith("AlmanacApi")) = 1
        /\ (rets["AlmanacApi"] # NoRet =>
              /\ rets["AlmanacContract"] # NoRet
              /\ rets["AlmanacApi"] = rets["AlmanacContract"])
  /\ (apiSeen.status # "none" /\ ApiUsable) =>
        /\ CalledWith("AlmanacContract") = {}
        /\ rets["AlmanacContract"] = NoRet

\* C1 witness: the API answered 404 and resolve() returned the endpoints the
\* contract resolver found for the same destination.
C1_Witness ==
  /\ apiSeen.status = "404"
  /\ rets["AlmanacApi"] # NoRet
  /\ ~rets["AlmanacApi"].threw
  /\ rets["AlmanacApi"].endpoints # <<>>
  /\ rets["AlmanacApi"] = rets["AlmanacContract"]
  /\ CalledWith("AlmanacContract") = CalledWith("AlmanacApi")

(* C2: resolve() of GlobalResolver, AlmanacApiResolver,                     *)
(* AlmanacContractResolver and NameServiceResolver never throws, whatever   *)
(* the API, the Almanac contract and the name service do: it completes with *)
(* a pair, a miss being (null, []).                                         *)
C2_ResolveNeverThrows ==
  \A r \in {"Global", "AlmanacApi", "AlmanacContract", "NameService"} :
    rets[r] # NoRet =>
      /\ ~rets[r].threw
      /\ (rets[r].address = Null => rets[r].endpoints = <<>>)

\* ----------------------------------------------------------- claims C3 - C7
\* sendExchangeEnvelope returned FAILED.
DeliveryFailed ==
  /\ pc \in {"returned", "done"}
  /\ result = MsgStatus("FAILED", "Message delivery failed", "")

\* The attempts are made in list order, one per endpoint.
AttemptsInListOrder ==
  /\ Len(tried) <= Len(endpoints)
  /\ \A i \in 1..Len(tried) : tried[i].endpoint = endpoints[i]

(* An attempt after which sendExchangeEnvelope returns: without sync an ok  *)
(* response; with sync an ok response whose body validates as an envelope   *)
(* that is unsigned or verifies, and that is returned or dispatched to      *)
(* every sink without an error.                                             *)
Succeeded(attempt) == attempt.how \in {"delivered", "returned", "dispatched"}

(* C3, as amended: the endpoints are attempted one at a time in list order; *)
(* no attempt follows a successful one, where without sync every ok         *)
(* response is a success, and with sync an ok response is a success only if *)
(* its reply validates, is unsigned or verifies, and is handed on without   *)
(* an error (after any other ok response the next endpoint is attempted);   *)
(* FAILED is returned only after every endpoint has been attempted.         *)
C3_SequentialUntilSuccess ==
  /\ AttemptsInListOrder
  /\ \A i \in 1..Len(tried) :
       /\ Succeeded(tried[i]) => (i = Len(tried) /\ tried[i].ok /\ pc # "delivering")
       /\ (~sync /\ tried[i].ok) => Succeeded(tried[i])
  /\ (pc = "delivering" => \A i \in 1..Len(tried) : ~Succeeded(tried[i]))
  /\ DeliveryFailed =>
       /\ Len(tried) = Len(endpoints)
       /\ \A i \in 1..Len(tried) : ~Succeeded(tried[i])

\* C3 witness: with sync, the first endpoint answered ok with a reply that
\* did not verify, and the second endpoint's reply was returned.
C3_Witness ==
  /\ sync
  /\ pc = "returned"
  /\ Len(tried) = 2
  /\ tried[1].ok
  /\ tried[1].how = "unverified"
  /\ tried[2].how = "returned"

(* C3 as stated: the endpoints are attempted in list order, no attempt      *)
(* follows an ok HTTP response in either mode, and FAILED is returned only  *)
(* after every endpoint has been attempted.                                 *)
C3_StopsAtFirstHttpOk ==
  /\ AttemptsInListOrder
  /\ \A i \in 1..(Len(tried) - 1) : ~tried[i].ok
  /\ DeliveryFailed => Len(tried) = Len(endpoints)

(* C4: when resolver.resolve returned an empty endpoint list, sendMessageRaw *)
(* returns FAILED at once: no envelope is built or signed and              *)
(* sendExchangeEnvelope is not called.                                      *)
C4_EmptyEndpointsFailFast ==
  (/\ pc \in {"delivering", "returned", "done"}
   /\ call # NoCall
   /\ ret # NoRet
   /\ ~ret.threw
   /\ ret.endpoints = <<>>)
  => /\ pc = "done"
     /\ env = NoEnvelope
     /\ tried = <<>>
     /\ result.kind = "status"
     /\ result.status = "FAILED"

(* C5: with a valid sender, sendMessageRaw never rejects because resolution *)
(* or delivery failed on the network or the contract: every such failure    *)
(* gives a returned MsgStatus FAILED.                                       *)
C5_FailuresBecomeFailedStatus ==
  (/\ pc = "done"
   /\ call # NoCall
   /\ SenderAddress(call.sender) # Absent)
  => /\ result # Thrown("resolve")
     /\ (ret.threw => (result.kind = "status" /\ result.status = "FAILED"))
     /\ ((tried # <<>> /\ \A i \in 1..Len(tried) : ~tried[i].ok) =>
           (result.kind = "status" /\ result.status = "FAILED"))

(* C6: with sync, a reply is returned or dispatched only after it verified: *)
(* a reply with no signature, or with one that does not verify against the  *)
(* reply's sender, is never accepted.                                       *)
C6_OnlyVerifiedRepliesAccepted ==
  accepted # NoEnvelope =>
    /\ HasSignature(accepted)
    /\ Envelope_verify(accepted) = "true"

(* C7: after e.sign(I), with I's address equal to e.sender, the stored      *)
(* signature is the bech32 'sig' encoding of I's signature over the         *)
(* envelope digest, and e.verify() on the unchanged envelope returns true.  *)
C7_SignThenVerify ==
  (env # NoEnvelope /\ HasSignature(env)) =>
     /\ env.signature = Bech32String("sig", EcSign(DecodeAddress(env.sender).key, _digest(env)))
     /\ Envelope_verify(env) = "true"

\* ---------------------------------------------------------- claims C8 - C10
\* How many times register() made the external call named event.
Count(event) == Cardinality({i \in 1..Len(trace) : trace[i] = event})

\* The position of the first call named event, 0 if there is none.
FirstAt(event) ==
  IF Count(event) = 0 THEN 0
  ELSE CHOOSE i \in 1..Len(trace) :
         trace[i] = event /\ \A j \in 1..(i - 1) : trace[j] # event

\* The contract's record holds the endpoints and protocols register() was given.
ChainReflectsRequest ==
  /\ chain.kind = "entry"
  /\ chain.endpoints = policy.endpoints.content
  /\ chain.protocols = policy.protocols.content

(* C8: DefaultRegistrationPolicy.register attempts the API registration     *)
(* exactly once, attempts the ledger registration exactly once iff ledger,  *)
(* wallet and contract were all supplied, makes each attempt whether or not *)
(* the other failed, and always resolves; when the API part failed and the  *)
(* ledger part succeeded, the contract holds the registration.              *)
C8_DefaultPolicyTriesBoth ==
  policy.kind = "default" =>
    /\ Count("apiPolicy.register") <= 1
    /\ Count("ledgerPolicy.register") <= 1
    /\ outcome.overall # "threw"
    /\ regPc = "done" =>
         /\ Count("apiPolicy.register") = 1
         /\ Count("ledgerPolicy.register") =
              (IF policy.ledger /\ policy.wallet /\ policy.contract THEN 1 ELSE 0)
         /\ outcome.api \in {"ok", "failed"}
         /\ outcome.overall = "resolved"
         /\ (outcome.api = "failed" /\ outcome.ledger = "resolved") => ChainReflectsRequest

\* C8 witness: the API registration failed, the ledger registration then
\* submitted its transaction, and register() resolved with the record stored.
C8_Witness ==
  /\ policy.kind = "default"
  /\ regPc = "done"
  /\ outcome.api = "failed"
  /\ outcome.ledger = "resolved"
  /\ outcome.overall = "resolved"
  /\ Count("almanacContract.register") = 1
  /\ policy.chainAtCall.kind = "none"
  /\ ChainReflectsRequest

\* The agent has no record, its record expires in under the update interval,
\* or the endpoints or protocols asked for differ from the record's.
Stale(record, eps, protocols) ==
  \/ record.kind # "entry"
  \/ record.blocksLeft * AVERAGE_BLOCK_INTERVAL < REGISTRATION_UPDATE_INTERVAL_SECONDS
  \/ record.endpoints # eps.content
  \/ record.protocols # protocols.content

(* C9: LedgerBasedRegistrationPolicy.register submits a register            *)
(* transaction iff the agent is not registered, its seconds to expiry are   *)
(* below REGISTRATION_UPDATE_INTERVAL_SECONDS, or the endpoints or          *)
(* protocols asked for differ from the record on chain; when none holds it  *)
(* submits nothing and makes no balance query and no faucet call.  Stated   *)
(* for the calls in which every query, the funding and the submission       *)
(* answered.                                                                *)
C9_RegistersIffStale ==
  (/\ regPc = "done"
   /\ outcome.ledger \in {"resolved", "TypeError"})
  => LET stale == Stale(policy.chainAtCall, policy.endpoints, policy.protocols)
     IN /\ (Count("almanacContract.register") = 1) <=> stale
        /\ ~stale =>
             /\ Count("queryBankBalance:low") + Count("queryBankBalance:enough") = 0
             /\ Count("addTestnetFunds") = 0

PostSafe ==
  /\ post.posts <= post.retries
  /\ post.last = "ok" => (post.pc = "done" /\ post.result = "true")
  /\ post.result = "true" => post.last = "ok"
  /\ post.result = "false" => (post.last # "ok" /\ post.posts <= post.retries)
  /\ (post.pc = "done" /\ post.caller = "policy") =>
        /\ post.outcome \in {"resolved", "threw"}
        /\ post.outcome = "resolved" <=> post.result = "true"
  /\ (post.pc = "done" /\ post.caller = "direct") => post.result \in {"true", "false"}

(* C11: almanacApiPost makes at most retries POST attempts and then         *)
(* returns: true as soon as an attempt gets an ok response, false if none   *)
(* does; AlmanacApiRegistrationPolicy.register resolves on true and throws  *)
(* on false.                                                                *)
C11_PostBoundedAndReported ==
  /\ []PostSafe
  /\ (post.pc \in {"loop", "sleeping"}) ~> (post.pc = "done")

\* C11 witness: the policy's post failed twice (one not-ok answer, one
\* thrown fetch followed by a backoff) and its third attempt was answered ok.
C11_Witness ==
  /\ post.pc = "done"
  /\ post.caller = "policy"
  /\ post.posts = 3
  /\ Len(post.slept) = 1
  /\ post.result = "true"
  /\ post.outcome = "resolved"

\* ----------------------------------------------------------- claims C12, C13
(* C12: AlmanacContract.register and registerBatch resolve only after the   *)
(* broadcast transaction was observed as confirmed (getTx returned a result *)
(* for it); when no result is observed within the timeout they reject with  *)
(* the timeout error.                                                       *)
C12_ResolvesOnlyWhenConfirmed ==
  (tx.kind \in {"register", "registerBatch"} /\ tx.pc = "done") =>
     /\ tx.result = "resolved" => (tx.submitted /\ tx.found /\ tx.last = "found")
     /\ (tx.submitted /\ ~tx.found) =>
          /\ tx.result = "Transaction query timeout"
          /\ tx.elapsed > DEFAULT_QUERY_TIMEOUT_SECS
     /\ ~tx.submitted => (tx.result # "resolved" /\ tx.polls = 0)

\* C12 witness: register broadcast its transaction, two polls found nothing,
\* the third returned the transaction, and register resolved.
C12_Witness ==
  /\ tx.kind = "register"
  /\ tx.pc = "done"
  /\ tx.submitted
  /\ tx.polls = 3
  /\ tx.found
  /\ tx.result = "resolved"

\* What holds of waitForTxToComplete at every moment.
WaitSafe ==
  /\ tx.found => (tx.pc = "done" /\ tx.result \in {"returned", "resolved"})
  /\ tx.result \in {"returned", "resolved"} => (tx.found /\ tx.last = "found")
  /\ tx.result = "Transaction query timeout" =>
        (~tx.found /\ tx.elapsed > tx.timeout /\ tx.polls >= 1)
  /\ (tx.pc = "sleep" /\ tx.last = "throw") => tx.elapsed <= tx.timeout
  /\ tx.pc \in {"poll", "sleep"} => tx.polls <= tx.elapsed + 1
  /\ (tx.pc = "done" /\ tx.polls >= 1) =>
        tx.result \in {"returned", "resolved", "Transaction query timeout"}

(* C13: waitForTxToComplete ends whenever every getTx call returns or       *)
(* fails: it returns the first truthy getTx result, goes on polling after a *)
(* failing getTx as after an empty one, and throws 'Transaction query       *)
(* timeout' once the time elapsed exceeds the timeout with no result.       *)
C13_WaitTerminates ==
  /\ []WaitSafe
  /\ (tx.pc \in {"poll", "sleep"}) ~> (tx.pc = "done")

\* C13 witness: a direct call saw getTx fail, polled again, and returned the
\* transaction the second poll found.
C13_Witness ==
  /\ tx.kind = "wait"
  /\ tx.pc = "done"
  /\ tx.threw = 1
  /\ tx.polls = 2
  /\ tx.result = "returned"

\* ------------------------------------------------------------------ claim C14
\* What holds of FaucetApi.getWealth at every moment.
FaucetSafe ==
  /\ faucet.checks <= MAX_RETRY_ATTEMPTS
  /\ faucet.pc \in {"check", "sleep", "final"} =>
        faucet.checks + faucet.retryAttempts \in
           {MAX_RETRY_ATTEMPTS, MAX_RETRY_ATTEMPTS + 1}
  /\ (faucet.pc = "final" \/ faucet.result = "returned") => faucet.last = "complete"
  /\ (faucet.pc = "done" /\ faucet.last = "complete") => faucet.result = "returned"
  /\ faucet.last = "failed" =>
        (faucet.pc = "done" /\ faucet.result = "Failed to get wealth")
  /\ faucet.last = "null" =>
        (faucet.pc = "done" /\ faucet.result = "Failed to check faucet claim status")
  /\ faucet.result = "Faucet claim check timed out" <=>
        /\ faucet.pc = "done"
        /\ faucet.checks = MAX_RETRY_ATTEMPTS
        /\ faucet.last \in {"pending", "processing", "other"}
  /\ (faucet.pc = "done" /\ faucet.checks = 0) =>
        faucet.result = "Unable to create faucet claim"

(* C14: FaucetApi.getWealth makes at most 30 claim-status checks and always *)
(* ends: it returns normally only when a check reported 'complete', throws  *)
(* when a check reports 'failed' or cannot be made, and throws the timeout  *)
(* error when all 30 checks report a claim still pending or processing.     *)
C14_FaucetBoundedAndEnds ==
  /\ []FaucetSafe
  /\ (faucet.pc \in {"check", "sleep", "final"}) ~> (faucet.pc = "done")

\* C14 witness: getWealth returned normally after its 30th and last check
\* reported 'complete'.
C14_Witness ==
  /\ faucet.pc = "done"
  /\ faucet.checks = MAX_RETRY_ATTEMPTS
  /\ faucet.last = "complete"
  /\ faucet.result = "returned"

\* ------------------------------------------------------------------ claim C15
(* C15: whatever the interleaving of concurrent getLedger calls, at most    *)
(* one client connection is ever established per network, and every call    *)
(* for a network returns the same client instance.                          *)
C15_OneConnectionPerNetwork ==
  /\ \A n \in Networks : conn.established[n] <= 1
  /\ \A c, d \in Callers :
       (/\ conn.callers[c].pc = "done"
        /\ conn.callers[d].pc = "done"
        /\ conn.callers[c].net = conn.callers[d].net)
       => conn.callers[c].got = conn.callers[d].got

\* ----------------------------------------------------------- claims C16, C17
(* C16: a dispatchMsg that has started invokes exactly the sinks that were  *)
(* registered for the destination when it started, whatever registrations   *)
(* or unregistrations are requested while it runs.                          *)
C16_DispatchUsesStartSnapshot ==
  /\ (disp.pc = "handling") =>
        /\ Len(disp.invoked) <= Len(disp.start)
        /\ \A i \in 1..Len(disp.invoked) :
             i <= Len(disp.start) => disp.invoked[i] = disp.start[i]
  /\ (disp.pc = "done" /\ ~disp.failed) => disp.invoked = disp.start

(* C17: with no registry change while it runs and no failing sink,          *)
(* dispatchMsg calls handleMessage exactly once on every sink registered    *)
(* for the destination, one after another, and on no other sink.            *)
C17_EachSinkOnceInTurn ==
  /\ disp.open <= 1
  /\ disp.pc = "done" => disp.open = 0
  /\ (disp.pc = "handling" /\ disp.changes = 0) =>
        /\ disp.invoked = SubSeq(disp.start, 1, disp.k)
        /\ disp.start = Handlers(disp.dest)
        /\ disp.cur = disp.start[disp.k]
  /\ (disp.pc = "done" /\ disp.changes = 0 /\ ~disp.failed) =>
        /\ disp.invoked = disp.start
        /\ \A i, j \in 1..Len(disp.invoked) :
             disp.invoked[i] = disp.invoked[j] => i = j

\* C17 witness: a message for an address with two sinks was dispatched to
\* both in turn while another address had a sink of its own.
C17_Witness ==
  /\ disp.pc = "done"
  /\ disp.changes = 0
  /\ ~disp.failed
  /\ disp.dest = <<"agent1qA">>
  /\ disp.invoked = <<"sinkB", "sinkA">>
  /\ <<"agent1qB">> \in DOMAIN sinks

\* ------------------------------------------------------------------ claim C18
(* C18: after one or more addAgent calls and with a sufficient balance,     *)
(* BatchLedgerRegistrationPolicy.register submits one batch (a single       *)
(* signAndBroadcast) holding one register message per added agent and       *)
(* resolves without error. Stated for calls in which no call to the chain,  *)
(* the wallet or the faucet failed.                                         *)
C18_BatchSubmitsOneTransaction ==
  (/\ batch.pc = "done"
   /\ Len(batch.records) >= 1
   /\ batch.funded
   /\ ~batch.external)
  => /\ batch.result = "resolved"
     /\ batch.broadcasts = 1
     /\ batch.messages = Len(batch.records)

\* ----------------------------------------------------------- claims C19, C20
\* The entries of a sequence that are at most 24 hours older than a time
Within24h(entries, time) ==
  SelectSeq(entries, LAMBDA e : time - e.timestamp <= RetentionSeconds)

(* C19: right after every addEntry at time now the history holds no entry   *)
(* with timestamp < now - 86400 and holds every entry it held before or     *)
(* that was just added with timestamp >= now - 86400, in insertion order.   *)
C19_AddEntryEvictsExactlyTheOld ==
  hist.op = "addEntry" =>
    /\ hist.at = hist.now
    /\ \A i \in 1..Len(hist.envelopes) :
         ~(hist.envelopes[i].timestamp < hist.now - RetentionSeconds)
    /\ hist.envelopes = Within24h(hist.before \o hist.added, hist.now)

\* C19 witness: an addEntry of an entry 86399 seconds old evicted an entry
\* 86401 seconds old and kept one exactly 86400 seconds old before the new one.
C19_Witness ==
  /\ hist.op = "addEntry"
  /\ hist.before = <<[timestamp |-> hist.now - RetentionSeconds - 1],
                     [timestamp |-> hist.now - RetentionSeconds]>>
  /\ hist.envelopes = <<[timestamp |-> hist.now - RetentionSeconds],
                        [timestamp |-> hist.now - RetentionSeconds + 1]>>

(* C20 as stated: in every reachable state, whatever the addEntry calls and *)
(* the passage of time, the history holds no entry with                     *)
(* timestamp < now - 86400.                                                 *)
C20_NeverOlderThan24h ==
  \A i \in 1..Len(hist.envelopes) :
    hist.envelopes[i].timestamp >= hist.now - RetentionSeconds

(* C20 amended: in every reachable state the history holds no entry more    *)
(* than 24 hours older than the time of the last addEntry or                *)
(* applyRetentionPolicy; entries are evicted only by these calls.           *)
C20_NeverOlderThan24hAtLastCall ==
  /\ hist.at <= hist.now
  /\ \A i \in 1..Len(hist.envelopes) :
       hist.envelopes[i].timestamp >= hist.at - RetentionSeconds

\* C20 witness: time has passed since the last addEntry and the history still
\* holds an entry that is now older than 24 hours.
C20_Witness ==
  /\ hist.op = "tick"
  /\ hist.at < hist.now
  /\ \E i \in 1..Len(hist.envelopes) :
       /\ hist.envelopes[i].timestamp < hist.now - RetentionSeconds
       /\ hist.envelopes[i].timestamp >= hist.at - RetentionSeconds

\* ------------------------------------------------------------------ claim C21
\* How often x occurs in a list
Occurrences(list, x) == Cardinality({i \in 1..Len(list) : list[i] = x})

(* C21: for any items of length n, any weights or none and any draws,       *)
(* weightedRandomSample(items, weights, k) returns min(k, n) items taken    *)
(* from pairwise distinct positions of items; with k = n the result is a    *)
(* permutation of the items.                                                *)
C21_SampleWithoutReplacement ==
  fn.op = "returned" =>
    LET n == Len(fn.items)
        m == Len(fn.out)
    IN /\ m = Min(fn.k, n)
       /\ \E pos \in [1..m -> 1..n] :
            /\ \A i, j \in 1..m : pos[i] = pos[j] => i = j
            /\ \A i \in 1..m : fn.out[i] = fn.items[pos[i]]
       /\ fn.k = n =>
            \A x \in {"a", "b"} : Occurrences(fn.out, x) = Occurrences(fn.items, x)

\* C21 witness: a weighted sample of all three items of a list came back in
\* another order than the list's.
C21_Witness ==
  /\ fn.op = "returned"
  /\ fn.weighted
  /\ fn.items = <<"a", "b", "b">>
  /\ fn.k = 3
  /\ fn.out = <<"b", "a", "b">>

\* ----------------------------------------------------------- claims C22, C23
\* Everything of s after the first occurrence of sep, s itself if there is none
AfterFirst(s, sep) ==
  IF Includes(s, sep)
  THEN SubSeq(s, IndexOf(s, sep, 1) + Len(sep), Len(s))
  ELSE s

\* The token parseIdentifier is to test: what follows the first "://", and
\* of that what follows the first "/"
WholeRemainder(identifier) ==
  AfterFirst(AfterFirst(identifier, <<":", "/", "/">>), <<"/">>)

\* The token parseIdentifier did test: the address it returned, else the name
TestedToken(out) == IF out[3] # <<>> THEN out[3] ELSE out[2]

(* C22: parseIdentifier splits once on the first "://" and then once on the *)
(* first "/", keeping the whole remainder: the token it tests as address or *)
(* name is everything after the first separator, with nothing discarded.    *)
C22_KeepsWholeRemainder ==
  fn.op = "returned" => TestedToken(fn.out) = WholeRemainder(fn.identifier)

\* A bech32 address with the user prefix
IsBech32UserAddress(token) == token = <<"user1U">>

\* A string of AGENT_ADDRESS_LENGTH characters that starts with "agent"
IsAgentAddress(token) ==
  /\ token # <<>>
  /\ TokStartsAgent(token[1])
  /\ StrLen(token) = AGENT_ADDRESS_LENGTH

(* C23: parseIdentifier returns the remaining token as address iff it is a  *)
(* user address (bech32 with the user prefix) or has length 65 and starts   *)
(* with "agent"; otherwise the address is "" and the token is the name.     *)
C23_AddressIffValid ==
  fn.op = "returned" =>
    LET token == TestedToken(fn.out)
    IN IF IsBech32UserAddress(token) \/ IsAgentAddress(token)
       THEN fn.out[3] = token
       ELSE fn.out[3] = <<>> /\ fn.out[2] = token

\* ------------------------------------------------------------------ claim C24
\* The sub-resolver calls of the outermost resolve(), in call order
SubCalls == SubSeq(calls, 2, Len(calls))

(* C24: GlobalResolver.resolve(d) returns (null, []) without calling any    *)
(* sub-resolver when the prefix of d is none of "test-agent", "agent", "";  *)
(* otherwise it delegates to AlmanacApiResolver when parseIdentifier(d)     *)
(* gives a non-empty address and to NameServiceResolver when it does not,   *)
(* and returns what that resolver returned.                                 *)
C24_GlobalDelegatesByIdentifier ==
  (call.resolver = "Global" /\ pc \in {"resolving", "done"}) =>
    LET d == call.destination
        parsed == parseIdentifier(d)
        known == parsed[1] \in {<<"test-agent">>, <<"agent">>, <<>>}
        sub == IF parsed[3] # <<>> THEN "AlmanacApi" ELSE "NameService"
        settled == rets["Global"] # NoRet
    IN /\ calls[1] = <<"Global", d>>
       /\ ~known => /\ SubCalls = <<>>
                    /\ settled => rets["Global"] = Miss
       /\ known => /\ SubCalls # <<>> => SubCalls[1] = <<sub, d>>
                   /\ sub = "AlmanacApi" => CalledWith("NameService") = {}
                   /\ settled => /\ SubCalls # <<>>
                                 /\ rets[sub] # NoRet
                                 /\ rets["Global"] = rets[sub]

\* C24 witness: GlobalResolver.resolve("test-agent://bob") went to the name
\* service resolver and returned the address and endpoints that one found.
C24_Witness ==
  /\ call.resolver = "Global"
  /\ call.destination = <<"test-agent", ":", "/", "/", "bob">>
  /\ pc = "done"
  /\ SubCalls # <<>>
  /\ SubCalls[1][1] = "NameService"
  /\ ~rets["Global"].threw
  /\ rets["Global"].endpoints # <<>>
  /\ rets["Global"] = rets["NameService"]

\* ------------------------------------------------------------------ claim C25
\* The endpoints configured for d: the list given for it, a single URL given
\* as a string counting as a list of one, none when d has no rule
Configured(rules, d) == IF d \in DOMAIN rules THEN rules[d].list ELSE <<>>

(* C25: RulesBasedResolver.resolve(d) never fails and returns (d, e) where  *)
(* e is the first min(maxEndpoints, n) of the n endpoints configured for d, *)
(* in their configured order, and the empty list when d has no rule.        *)
(* maxEndpoints is the resolver's limit, DEFAULT_MAX_ENDPOINTS when none    *)
(* was given.                                                               *)
C25_RulesTruncateInOrder ==
  fn.op = "returned" =>
    LET e == Configured(fn.rules, fn.destination)
        limit == IF fn.maxEndpoints = 0 THEN DEFAULT_MAX_ENDPOINTS ELSE fn.maxEndpoints
    IN /\ ~fn.out.threw
       /\ fn.out.address = fn.destination
       /\ fn.out.endpoints = SubSeq(e, 1, Min(limit, Len(e)))

\* --------------------------------------------------------- claims C26, C27
\* The signature string of identity key over digest
SignatureOf(key, digest) == Bech32String("sig", EcSign(key, digest))

(* C26: I.sign(D) and I.signDigest(D) return a signature that verifyDigest  *)
(* accepts for I's address and digest D and rejects for any other           *)
(* identity's address.                                                      *)
C26_SignVerifyRoundTrip ==
  /\ (fn.f \in {"sign", "signDigest"} /\ fn.op # "call") =>
        /\ fn.op # "threw"
        /\ fn.signature = SignatureOf(fn.key, fn.digest)
        /\ fn.op = "returned" => (fn.out = "true" <=> fn.address = AddressOf(fn.key))
  /\ \A k \in Keys :
        (/\ fn.f = "verifyDigest"
         /\ fn.op # "call"
         /\ fn.address \in AgentAddresses
         /\ fn.signature = SignatureOf(k, fn.digest))
        => /\ fn.op = "returned"
           /\ fn.out = "true" <=> fn.address = AddressOf(k)

(* C27: verifyDigest never throws: for any address, digest and signature    *)
(* string it returns true or false.                                         *)
C27_VerifyDigestNeverThrows ==
  (fn.f = "verifyDigest" /\ fn.op # "call") =>
     /\ fn.op = "returned"
     /\ fn.out \in {"true", "false"}

\* C27 witness: verifyDigest returned false where a statement inside its try
\* threw, on an address that is no bech32 string.
C27_Witness ==
  /\ fn.f = "verifyDigest"
  /\ fn.op = "returned"
  /\ fn.out = "false"
  /\ ~DecodeAddress(fn.address).ok
  /\ verifyDigest_try(fn.address, fn.digest, fn.signature) = "threw"

\* --------------------------------------------------------------- claim C28
\* The context has a replies map and a received message, and the map does
\* not list the outgoing digest as a reply to it.
NotAnAllowedReply ==
  /\ fn.replies # NoReplies
  /\ fn.received # "none"
  /\ fn.message # ERROR_MESSAGE_DIGEST
  /\ fn.message \notin fn.replies[fn.received].allowed

(* C28: send, given a message whose schema digest the replies map does not  *)
(* list as a reply to the received message, throws an error and returns no  *)
(* status value.                                                            *)
C28_InvalidReplyThrows ==
  (fn.op # "call" /\ NotAnAllowedReply) => fn.op = "threw"

\* --------------------------------------------------------------- claim C29
\* The digest input the statement describes: the four fixed fields, then
\* each of payload, expires and nonce that is present, in that order.
DigestInputAsStated(e) ==
  e.sender \o e.target \o e.session \o e.schemaDigest
  \o (IF e.payload # Absent THEN e.payload ELSE <<>>)
  \o (IF e.hasExpires THEN U64(e.expires) ELSE <<>>)
  \o (IF e.hasNonce THEN U64(e.nonce) ELSE <<>>)

(* C29: the digest is computed over sender, target, session, schemaDigest,  *)
(* payload, expires, nonce in that order, each of the last three included   *)
(* exactly when present: with expires = 0, nonce = 0 or an empty payload    *)
(* the digest input differs from that of the same envelope without the      *)
(* field.                                                                   *)
C29_DigestFieldsWhenPresent ==
  fn.op = "returned" =>
    /\ fn.fed = DigestInputAsStated(fn.env)
    /\ fn.env.hasExpires =>
         fn.fed # _digest([fn.env EXCEPT !.hasExpires = FALSE, !.expires = 0])
    /\ fn.env.hasNonce =>
         fn.fed # _digest([fn.env EXCEPT !.hasNonce = FALSE, !.nonce = 0])
    /\ fn.env.payload # Absent =>
         fn.fed # _digest([fn.env EXCEPT !.payload = Absent])

\* --------------------------------------------------------------- claim C30
(* C30: two attestations with the same field values give the same digest    *)
(* input whatever the key order of their object literals, nested ones       *)
(* included; two that differ in the order of an array do not.               *)
C30_DigestIgnoresKeyOrder ==
  fn.op = "returned" =>
    /\ fn.va = fn.vb => fn.da = fn.db
    /\ fn.va # fn.vb => fn.da # fn.db

\* C30 witness: the same values in object literals of different key order,
\* at the top and inside the endpoints and metadata, gave one digest input.
C30_Witness ==
  /\ fn.op = "returned"
  /\ fn.va = fn.vb
  /\ fn.va.metadata
  /\ fn.a.kids[1][1] # fn.b.kids[1][1]
  /\ \E i \in 1..Len(fn.a.kids), j \in 1..Len(fn.b.kids) :
       /\ fn.a.kids[i][1] = "endpoints"
       /\ fn.b.kids[j][1] = "endpoints"
       /\ fn.a.kids[i][2] # fn.b.kids[j][2]
  /\ \E i \in 1..Len(fn.a.kids), j \in 1..Len(fn.b.kids) :
       /\ fn.a.kids[i][1] = "metadata"
       /\ fn.b.kids[j][1] = "metadata"
       /\ fn.a.kids[i][2] # fn.b.kids[j][2]
  /\ fn.da = fn.db
  /\ fn.da # <<>>

\* --------------------------------------------------------------- claim C31
(* C31: queryContract returns the client's response only if it is a         *)
(* structured object; for a string, number, boolean, null or undefined it   *)
(* fails with the invalid-response error.                                   *)
C31_OnlyStructuredResponses ==
  (fn.op # "call" /\ fn.response.kind # "rejected") =>
     IF fn.response.kind \in {"object", "array"}
     THEN fn.op = "returned" /\ fn.out = fn.response.v
     ELSE fn.op = "threw" /\ fn.out = "Invalid response format"

\* --------------------------------------------------------------- claim C32
\* The stated delay after the attempt numbered retry, in microseconds:
\* 2 ** (retry + 6) thousandths of a second, at most 131.072 s
StatedBackoffMicros(retry) == Min(2 ^ (retry + 6), 131072) * 1000

(* C32: the backoff delays slept by almanacApiPost are 0.128 s at the       *)
(* start (0.064 s after the very first attempt), double with each further   *)
(* retry and never exceed 131.072 s.                                        *)
C32_BackoffDoublesFromEighthSecond ==
  \A i \in 1..Len(post.slept) :
     /\ \E retry \in 0..(post.retries - 1) :
          post.slept[i] = StatedBackoffMicros(retry)
     /\ i > 1 => post.slept[i] >= 2 * post.slept[i - 1]
     /\ post.slept[i] <= 131072000

\* --------------------------------------------------------------- claim C33
\* Every surrogate of s is half of a pair: s is the UTF-16 of some text.
RECURSIVE WellFormedString(_)
WellFormedString(s) ==
  IF s = <<>> THEN TRUE
  ELSE IF s[1] = HighSurrogate
       THEN Len(s) >= 2 /\ s[2] = LowSurrogate /\ WellFormedString(Tail(Tail(s)))
  ELSE s[1] # LowSurrogate /\ WellFormedString(Tail(s))

(* C33 as stated: for every string s, the empty one included, decodePayload *)
(* returns s after encodePayload(s).                                        *)
C33_PayloadRoundTrip ==
  fn.op = "returned" => fn.out = fn.s

(* C33, amended: for every string s that is the UTF-16 of some text (no     *)
(* surrogate without its other half), the empty one included,               *)
(* decodePayload returns s after encodePayload(s).                          *)
C33_PayloadRoundTripOfText ==
  (fn.op = "returned" /\ WellFormedString(fn.s)) => fn.out = fn.s

\* C33 witness: a string of a surrogate pair and an accented letter came
\* back from decodePayload.
C33_Witness ==
  /\ fn.op = "returned"
  /\ fn.s = <<HighSurrogate, LowSurrogate, "e'">>
  /\ fn.env.payload = Base64(<<"f0 9f 98 80", "e'">>)
  /\ fn.out = fn.s

\* C33 witness for the empty string: the payload is empty and decodePayload
\* returned the empty string.
C33_WitnessEmpty ==
  /\ fn.op = "returned"
  /\ fn.s = <<>>
  /\ fn.env.payload = <<>>
  /\ fn.out = <<>>

\* --------------------------------------------------------------- claim C34
(* C34: for a signature (r, s) with 0 < s < n the canonical signature has   *)
(* s' <= n/2, where s' = s if s <= n/2 and s' = n - s otherwise, and r is   *)
(* unchanged.                                                               *)
C34_CanonicalLowS ==
  fn.op = "returned" =>
    /\ 2 * fn.out.s <= CurveOrder
    /\ fn.out.s = IF 2 * fn.signature.s <= CurveOrder
                  THEN fn.signature.s
                  ELSE CurveOrder - fn.signature.s
    /\ fn.out.r = fn.signature.r

\* C34 witness: a signature whose s was above n/2 came back with n - s.
C34_Witness ==
  /\ fn.op = "returned"
  /\ 2 * fn.signature.s > CurveOrder
  /\ fn.out.s = CurveOrder - fn.signature.s
  /\ fn.out.s > 0

\* --------------------------------------------------------- claims C35, C40
(* C35: after set(k, v), get(k) returns v, the latest value set for k, and  *)
(* the backing file holds exactly the store's key/value pairs.              *)
C35_GetReturnsWhatWasSet ==
  /\ (fn.last.call = "get" /\ KeyValueStore_has(fn.data, fn.last.key)) =>
        fn.last.ret = fn.data[fn.last.key]
  /\ fn.last.call = "set" =>
        /\ fn.file.exists
        /\ fn.file.content = fn.data

(* C40: after any set, remove and clear, a new KeyValueStore of the same    *)
(* name and directory answers has and get for every key as the original     *)
(* does; and constructing a store never creates the file.                   *)
C40_ReloadedStoreAgrees ==
  /\ \A key \in StoreKeys :
       /\ KeyValueStore_has(_load(fn.file), key) = KeyValueStore_has(fn.data, key)
       /\ KeyValueStore_get(_load(fn.file), key) = KeyValueStore_get(fn.data, key)
  /\ fn.last.call = "constructor" => fn.file.exists = fn.last.fileBefore

\* --------------------------------------------------------------- claim C37
(* C37: after any register and unregister calls the sink map holds no       *)
(* address with an empty sink set, contains(a) is true iff a sink           *)
(* registered for a has not been unregistered since, and unregistering an   *)
(* unknown address or sink leaves the registry unchanged.                   *)
C37_RegistryHoldsLiveSinks ==
  fn.op = "registry" =>
    /\ \A a \in DOMAIN sinks : sinks[a] # <<>>
    /\ \A a \in DispAddresses :
         Dispatcher_contains(a) <=> \E s \in RegistrySinks : <<a, s>> \in fn.live
    /\ \A a \in DispAddresses, s \in RegistrySinks :
         <<a, s>> \in fn.live <=> IndexIn(Handlers(a), s) # 0
    /\ (/\ fn.last.call = "unregister"
        /\ <<fn.last.address, fn.last.sink>> \notin fn.last.liveBefore)
       => sinks = fn.last.before

\* C37 witness: the last sink of an address was unregistered and the address
\* is gone from the registry, while the other address keeps its sinks.
C37_Witness ==
  /\ fn.op = "registry"
  /\ fn.last.call = "unregister"
  /\ <<fn.last.address, fn.last.sink>> \in fn.last.liveBefore
  /\ fn.last.address \in DOMAIN fn.last.before
  /\ ~Dispatcher_contains(fn.last.address)
  /\ DOMAIN sinks # {}

\* --------------------------------------------------------------- claim C36
\* The destination names an address that is registered with the Dispatcher.
RegisteredDestination ==
  LET address == parseIdentifier(fn.destination)[3]
  IN address # <<>> /\ address \in DOMAIN sinks

(* C36: sendRaw to a destination whose address is registered with the       *)
(* Dispatcher goes through dispatchMsg and returns DELIVERED 'Message       *)
(* dispatched locally', without calling the resolver and without queueing   *)
(* an envelope; for an address that is not registered there is no local     *)
(* dispatch.                                                                *)
C36_LocalDispatchShortCircuits ==
  fn.op \in {"dispatching", "returned", "threw"} =>
    /\ RegisteredDestination =>
         /\ fn.local
         /\ ~fn.resolverCalled
         /\ ~fn.queued
         /\ ~fn.outbound
         /\ fn.op = "returned" => fn.out = "DELIVERED: Message dispatched locally"
    /\ ~RegisteredDestination => ~fn.local

\* C36 witness: a destination with a prefix and a name before a registered
\* address was dispatched locally and DELIVERED returned.
C36_Witness ==
  /\ fn.op = "returned"
  /\ RegisteredDestination
  /\ Len(fn.destination) > 1
  /\ fn.local
  /\ fn.out = "DELIVERED: Message dispatched locally"

\* --------------------------------------------------------------- claim C38
(* C38: a synchronous reply is never lost: dispatchSyncResponseEnvelope     *)
(* returns the envelope itself, or returns DELIVERED after at least one     *)
(* sink registered for the reply's target has handled it.                   *)
C38_SyncReplyNeverLost ==
  accepted # NoEnvelope =>
    \/ result = Returned("envelope")
    \/ /\ result = MsgStatus("DELIVERED",
                             "Sync message successfully delivered via HTTP", "")
       /\ \E i \in 1..Len(handled) : handled[i][1] = accepted.target

\* --------------------------------------------------------------- claim C39
(* C39: in almanacApiPost every failed attempt but the last is followed by  *)
(* a backoff sleep before the next POST: there is a sleep between any two   *)
(* POST attempts.                                                           *)
C39_SleepBetweenPosts ==
  post.posts <= Len(post.slept) + 1

====
